---- MODULE Spec2Model ----
(***************************************************************************)
(* A model of the CHIP-8 interpreter core of keelus/chip-8-emu: the Cpu    *)
(* struct (core/cpu.rs) with its Registers, Timers, Memory, Screen and     *)
(* Keypad, the tick()/do_tick() fetch-decode-execute cycle and the host's  *)
(* control surface.                                                        *)
(*                                                                         *)
(* Representation notes.                                                   *)
(*  - `cpu` is the Cpu struct, one record field per struct field, plus the *)
(*    field `panic`: "none" while the process lives, else the message of   *)
(*    the Rust panic that ended it (a panic is fatal: nothing runs after). *)
(*  - Option<T> is a sequence: <<>> is None, <<x>> is Some(x).             *)
(*  - A screen row (a u64, bit 63 the leftmost pixel) is the set of its    *)
(*    lit columns, column c standing for bit 63 - c; TLC's integers are    *)
(*    32 bits wide and cannot hold the word itself.                        *)
(*  - Instant::now() is the variable `now`, counted in 1/ClockHz seconds.  *)
(*  - tick() is a loop of do_tick() calls; `tick_left` is the number of    *)
(*    iterations the running tick() still has to make (0: no tick() is     *)
(*    running, the host may call).                                         *)
(*  - u8/u16 arithmetic written with + - * in the source panics on         *)
(*    overflow in a build with overflow checks (debug) and wraps without   *)
(*    them (release): `overflow_checks` is the build's choice.             *)
(*  - `last_call` names the host's last call of the Cpu's API and `calls`  *)
(*    counts them; `last_step` records the last do_tick call: the address  *)
(*    it fetched from, the instruction, the keypad's release slot before   *)
(*    the call, and whether it "executed" the instruction,                 *)
(*    returned "rate_limited" or "panicked". These three are history the   *)
(*    properties refer to, not program state.                              *)
(***************************************************************************)
EXTENDS Integers, Sequences, FiniteSets, TLC

VARIABLES cpu, now, tick_left, overflow_checks, quirks, last_call, calls,
          last_step

vars == <<cpu, now, tick_left, overflow_checks, quirks, last_call, calls,
          last_step>>

(* ------------------------------------------------------------------ *)
(* Program constants                                                   *)
(* ------------------------------------------------------------------ *)

MEMORY_SIZE == 4096
HEX_SPRITES_HEIGHT == 5
HEX_SPRITES_START_MEM == 0
TIMER_HZ == 60
DELAY_TIMER == 0
SOUND_TIMER == 1
WIDTH == 64
HEIGHT == 32
PROGRAM_BEGIN == 512
DEFAULT_DRAWS_PER_SECOND == 60
DEFAULT_TICKS_PER_FRAME == 10

HEX_SPRITES ==
  << <<240, 144, 144, 144, 240>>,  \* 0
     <<32, 96, 32, 32, 112>>,      \* 1
     <<240, 16, 240, 128, 240>>,   \* 2
     <<240, 16, 240, 16, 240>>,    \* 3
     <<144, 144, 240, 16, 16>>,    \* 4
     <<240, 128, 240, 16, 240>>,   \* 5
     <<240, 128, 240, 144, 240>>,  \* 6
     <<240, 16, 32, 64, 64>>,      \* 7
     <<240, 144, 240, 144, 240>>,  \* 8
     <<240, 144, 240, 16, 240>>,   \* 9
     <<240, 144, 240, 144, 144>>,  \* A
     <<224, 144, 224, 144, 224>>,  \* B
     <<240, 128, 128, 128, 240>>,  \* C
     <<224, 144, 144, 144, 224>>,  \* D
     <<240, 128, 240, 128, 240>>,  \* E
     <<240, 128, 240, 128, 128>> >> \* F

\* The quirk constants of cpu.rs, as the configuration a Cpu runs under.
DefaultQuirks ==
  [ SHIFTS_AGAINST_VY |-> TRUE,
    MEMORY_LOAD_SAVE_INCREMENT_I |-> TRUE,
    CLIPPING |-> TRUE,
    JP_BEHAVIOUR |-> 0 ]

(* ------------------------------------------------------------------ *)
(* Bounds of the model                                                 *)
(* ------------------------------------------------------------------ *)

\* Ticks of the clock per second: 1/120 s resolves both half a timer unit
\* (1/60 s each) and the default draw interval of 1/60 s.
ClockHz == 2 * TIMER_HZ
\* The clock stops advancing at MaxNow.
MaxNow == 3
\* The host makes at most MaxCalls calls of the Cpu's API.
MaxCalls == 3

(* ------------------------------------------------------------------ *)
(* Machine integers                                                    *)
(* ------------------------------------------------------------------ *)

U8 == 0..255
U16 == 0..65535
Reg == 0..15

None == <<>>
Some(x) == <<x>>
IsSome(o) == Len(o) = 1
Unwrap(o) == o[1]

RECURSIVE BitAnd(_, _)
BitAnd(a, b) ==
  IF a = 0 \/ b = 0 THEN 0
  ELSE (a % 2) * (b % 2) + 2 * BitAnd(a \div 2, b \div 2)

RECURSIVE BitOr(_, _)
BitOr(a, b) ==
  IF a = 0 THEN b ELSE IF b = 0 THEN a
  ELSE (IF a % 2 = 1 \/ b % 2 = 1 THEN 1 ELSE 0) + 2 * BitOr(a \div 2, b \div 2)

RECURSIVE BitXor(_, _)
BitXor(a, b) ==
  IF a = 0 THEN b ELSE IF b = 0 THEN a
  ELSE ((a + b) % 2) + 2 * BitXor(a \div 2, b \div 2)

Ok(c) == c.panic = "none"

\* A panic raised only after the program counter has moved on.
Panic_after_advance(c, msg) ==
  IF Ok(c)
  THEN [c EXCEPT !.panic = msg, !.registers.pc = (@ + 2) % 65536]
  ELSE c

Panic(c, msg) == IF Ok(c) THEN [c EXCEPT !.panic = msg] ELSE c

\* The result of an unchecked-width arithmetic expression `value` stored in
\* a register of `modulus` values: a panic under overflow checks, the
\* wrapped value otherwise.
Overflows(value, modulus) == value < 0 \/ value >= modulus
Wrap(value, modulus) == value % modulus

(* ------------------------------------------------------------------ *)
(* Instruction (core/instruction.rs)                                    *)
(* ------------------------------------------------------------------ *)

\* Instruction::parts as the tuple <<p1, p2, p3, p4>> of nibbles.
InsX(ins) == ins[2]
InsY(ins) == ins[3]
InsN(ins) == ins[4]
InsKK(ins) == BitOr((ins[3] * 16) % 256, ins[4])
InsNNN(ins) == BitOr(BitOr(ins[2] * 256, ins[3] * 16), ins[4])

(* ------------------------------------------------------------------ *)
(* Timer (core/registers.rs)                                            *)
(* ------------------------------------------------------------------ *)

NewTimer(t) == [last_write |-> t, write_data |-> 0]

TimerWrite(t, data) == [last_write |-> t, write_data |-> data]

\* f64::round: to the nearest integer, halves away from zero; num / den.
RoundDiv(num, den) ==
  IF num >= 0 THEN (2 * num + den) \div (2 * den)
  ELSE 0 - ((2 * (0 - num) + den) \div (2 * den))

\* A cast that wraps modulo 256 instead of saturating.
SaturateU8_wrapping(x) == x % 256

\* `f64 as u8`: a saturating cast.
SaturateU8(x) == IF x < 0 THEN 0 ELSE IF x > 255 THEN 255 ELSE x

\* Instant::duration_since saturates at zero.
DurationSince(t, earlier) == IF t >= earlier THEN t - earlier ELSE 0

TimerRead(timer, t) ==
  LET diff == DurationSince(t, timer.last_write)
      \* write_data - TIMER_HZ * diff_s, over the denominator ClockHz
      value == RoundDiv(timer.write_data * ClockHz - TIMER_HZ * diff, ClockHz)
  IN SaturateU8(value)

(* ------------------------------------------------------------------ *)
(* Registers, Memory, Screen, Keypad constructors                        *)
(* ------------------------------------------------------------------ *)

NewRegisters(t, pc_begin) ==
  [ v |-> [r \in Reg |-> 0],
    i |-> 0,
    timers |-> [k \in 0..1 |-> NewTimer(t)],
    pc |-> pc_begin,
    sp |-> 0,
    stack |-> [s \in Reg |-> 0] ]

\* Memory::new: zero-filled, the glyph table from HEX_SPRITES_START_MEM.
NewMemory ==
  [ a \in 0..(MEMORY_SIZE - 1) |->
      IF a >= HEX_SPRITES_START_MEM
         /\ a < HEX_SPRITES_START_MEM + 16 * HEX_SPRITES_HEIGHT
      THEN HEX_SPRITES[((a - HEX_SPRITES_START_MEM) \div HEX_SPRITES_HEIGHT) + 1]
                      [((a - HEX_SPRITES_START_MEM) % HEX_SPRITES_HEIGHT) + 1]
      ELSE 0 ]

NewScreen == [row \in 0..(HEIGHT - 1) |-> {}]

NewKeypad == [key_map |-> [k \in Reg |-> FALSE], last_key |-> None]

\* A write that drops what does not fit in the array.
MemWrite_dropping(c, addr, data) ==
  IF ~Ok(c) \/ addr >= MEMORY_SIZE THEN c
  ELSE [c EXCEPT !.memory[addr] = data]

\* Memory::write and Memory::read index the array: out of range panics.
MemWrite(c, addr, data) ==
  IF ~Ok(c) THEN c
  ELSE IF addr >= MEMORY_SIZE THEN Panic(c, "index out of bounds")
  ELSE [c EXCEPT !.memory[addr] = data]


\* The bounds check of Memory::read; the byte read is c.memory[addr].
MemReadable(addr) == addr < MEMORY_SIZE

(* ------------------------------------------------------------------ *)
(* Keypad (core/keypad.rs)                                              *)
(* ------------------------------------------------------------------ *)

\* A set_key that takes every key-up for a release.
set_key_any_up(c, idx, state) ==
  IF ~Ok(c) THEN c
  ELSE IF idx \notin DOMAIN c.keypad.key_map
  THEN Panic(c, "called Option::unwrap() on a None value")
  ELSE [c EXCEPT !.keypad.last_key = IF ~state THEN Some(idx) ELSE @,
                 !.keypad.key_map[idx] = state]

set_key(c, idx, state) ==
  IF ~Ok(c) THEN c
  ELSE IF idx \notin DOMAIN c.keypad.key_map
  THEN Panic(c, "called Option::unwrap() on a None value")
  ELSE LET entry == c.keypad.key_map[idx]
           released == entry /\ ~state
       IN [c EXCEPT !.keypad.last_key = IF released THEN Some(idx) ELSE @,
                    !.keypad.key_map[idx] = state]

\* A get_key_state that only reads the key's state.
get_key_state_reading_only(c, idx) ==
  IF ~Ok(c) THEN c
  ELSE IF idx \notin DOMAIN c.keypad.key_map
  THEN Panic(c, "called Option::unwrap() on a None value")
  ELSE c

\* get_key_state: the query also forgets the pending release.
\* A get_key_state whose map has no key F.
get_key_state_without_f(c, idx) ==
  IF ~Ok(c) THEN c
  ELSE IF idx >= 15
  THEN Panic(c, "called Option::unwrap() on a None value")
  ELSE [c EXCEPT !.keypad.last_key = None]

get_key_state(c, idx) ==
  IF ~Ok(c) THEN c
  ELSE IF idx \notin DOMAIN c.keypad.key_map
  THEN Panic(c, "called Option::unwrap() on a None value")
  ELSE [c EXCEPT !.keypad.last_key = None]

\* A get_released_key that returns the slot without emptying it.
get_released_key_keeping(c) == c

\* get_released_key: the value returned is the slot before the call.
get_released_key(c) == [c EXCEPT !.keypad.last_key = None]

(* ------------------------------------------------------------------ *)
(* Beep handler (the BeepHandler of main.rs, held as Option<Box<dyn>>)  *)
(* ------------------------------------------------------------------ *)

\* The handler's state is whether its audio device is open (playing).
beep_start(handler) == [device |-> TRUE]
beep_stop(handler) == [device |-> FALSE]

handle_beep(c, t) ==
  IF ~Ok(c) THEN c
  ELSE IF IsSome(c.beep_handler)
  THEN IF TimerRead(c.registers.timers[SOUND_TIMER], t) > 0 /\ c.beep_enabled
       THEN [c EXCEPT !.beep_handler = Some(beep_start(Unwrap(@)))]
       ELSE [c EXCEPT !.beep_handler = Some(beep_stop(Unwrap(@)))]
  ELSE c

(* ------------------------------------------------------------------ *)
(* Opcode handlers (the arms of do_tick's match)                        *)
(* ------------------------------------------------------------------ *)

V(c, x) == c.registers.v[x]
SetV(c, x, value) == [c EXCEPT !.registers.v[x] = value]

\* `self.registers.pc += 2`
PcAdd2(c) ==
  IF ~Ok(c) THEN c
  ELSE LET value == c.registers.pc + 2
       IN IF Overflows(value, 65536) /\ overflow_checks
          THEN Panic(c, "attempt to add with overflow")
          ELSE [c EXCEPT !.registers.pc = Wrap(value, 65536)]

\* `self.registers.pc -= 2`
PcSub2(c) ==
  IF ~Ok(c) THEN c
  ELSE LET value == c.registers.pc - 2
       IN IF Overflows(value, 65536) /\ overflow_checks
          THEN Panic(c, "attempt to subtract with overflow")
          ELSE [c EXCEPT !.registers.pc = Wrap(value, 65536)]

CLS_00e0(c) == [c EXCEPT !.screen = [row \in 0..(HEIGHT - 1) |-> {}]]

\* A pop that wraps in u8 (`wrapping_sub(1)`) instead of in the ring.
RingPrev_wrapping_u8(sp) == (sp + 255) % 256

\* `overflowing_sub(1)`, 0xF on overflow: the stack pointer after a pop.
RingPrev(sp) == IF sp = 0 THEN 15 ELSE sp - 1

RET_00ee(c) ==
  LET sp == RingPrev(c.registers.sp)
  IN IF sp \notin DOMAIN c.registers.stack
     THEN Panic(c, "index out of bounds")
     ELSE [c EXCEPT !.registers.sp = sp,
                    !.registers.pc = c.registers.stack[sp]]

JP_1nnn(c, ins) == [c EXCEPT !.registers.pc = Wrap(InsNNN(ins) - 2, 65536)]

\* A push that never goes back to slot 0.
RingNext_unbounded(sp) == Wrap(sp + 1, 256)

\* `sp + 1; if sp > 0xF { sp = 0 }`: the stack pointer after a push.
RingNext(sp) == IF Wrap(sp + 1, 256) > 15 THEN 0 ELSE Wrap(sp + 1, 256)

\* A CALL that stores the address after the CALL.
CALL_2nnn_storing_return(c, ins) ==
  LET sp == c.registers.sp
  IN IF sp \notin DOMAIN c.registers.stack
     THEN Panic(c, "index out of bounds")
     ELSE [c EXCEPT !.registers.stack[sp] = c.registers.pc + 2,
                    !.registers.sp = RingNext(sp),
                    !.registers.pc = Wrap(InsNNN(ins) - 2, 65536)]

CALL_2nnn(c, ins) ==
  LET sp == c.registers.sp
  IN IF sp \notin DOMAIN c.registers.stack
     THEN Panic(c, "index out of bounds")
     ELSE IF Overflows(sp + 1, 256) /\ overflow_checks
     THEN Panic([c EXCEPT !.registers.stack[sp] = c.registers.pc],
                "attempt to add with overflow")
     ELSE [c EXCEPT !.registers.stack[sp] = c.registers.pc,
                    !.registers.sp = RingNext(sp),
                    !.registers.pc = Wrap(InsNNN(ins) - 2, 65536)]

SE_3xkk(c, ins) == IF V(c, InsX(ins)) = InsKK(ins) THEN PcAdd2(c) ELSE c

SNE_4xkk(c, ins) == IF V(c, InsX(ins)) # InsKK(ins) THEN PcAdd2(c) ELSE c

SE_5xy0(c, ins) == IF V(c, InsX(ins)) = V(c, InsY(ins)) THEN PcAdd2(c) ELSE c

LD_6xkk(c, ins) == SetV(c, InsX(ins), InsKK(ins))

ADD_7xkk(c, ins) == SetV(c, InsX(ins), Wrap(V(c, InsX(ins)) + InsKK(ins), 256))

LD_8xy0(c, ins) == SetV(c, InsX(ins), V(c, InsY(ins)))

\* An OR that leaves the flag register alone.
OR_8xy1_keeping_flag(c, ins) ==
  SetV(c, InsX(ins), BitOr(V(c, InsX(ins)), V(c, InsY(ins))))

OR_8xy1(c, ins) ==
  SetV(SetV(c, InsX(ins), BitOr(V(c, InsX(ins)), V(c, InsY(ins)))), 15, 0)

AND_8xy2(c, ins) ==
  SetV(SetV(c, InsX(ins), BitAnd(V(c, InsX(ins)), V(c, InsY(ins)))), 15, 0)

XOR_8xy3(c, ins) ==
  SetV(SetV(c, InsX(ins), BitXor(V(c, InsX(ins)), V(c, InsY(ins)))), 15, 0)

\* A subtraction that reports a borrow when the operands are equal.
OverflowingSub_strict(a, b) == <<Wrap(a - b, 256), a <= b>>

\* u8::overflowing_add / overflowing_sub: <<wrapped value, overflowed>>.
OverflowingAdd(a, b) == <<Wrap(a + b, 256), a + b > 255>>
OverflowingSub(a, b) == <<Wrap(a - b, 256), a < b>>

\* An 8xy4 that writes the flag before the sum.
ADD_8xy4_flag_first(c, ins) ==
  LET r == OverflowingAdd(V(c, InsX(ins)), V(c, InsY(ins)))
  IN SetV(SetV(c, 15, IF r[2] THEN 1 ELSE 0), InsX(ins), r[1])

ADD_8xy4(c, ins) ==
  LET r == OverflowingAdd(V(c, InsX(ins)), V(c, InsY(ins)))
  IN SetV(SetV(c, InsX(ins), r[1]), 15, IF r[2] THEN 1 ELSE 0)

SUB_8xy5(c, ins) ==
  LET r == OverflowingSub(V(c, InsX(ins)), V(c, InsY(ins)))
  IN SetV(SetV(c, InsX(ins), r[1]), 15, IF r[2] THEN 0 ELSE 1)

\* A right shift that always shifts Vx, whatever SHIFTS_AGAINST_VY says.
SHR_8xy6_in_place(c, ins) ==
  LET value == V(c, InsX(ins))
      vf == IF BitAnd(value, 1) # 0 THEN 1 ELSE 0
  IN SetV(SetV(c, InsX(ins), value \div 2), 15, vf)

SHR_8xy6(c, ins) ==
  LET value == IF quirks.SHIFTS_AGAINST_VY THEN V(c, InsY(ins)) ELSE V(c, InsX(ins))
      vf == IF BitAnd(value, 1) # 0 THEN 1 ELSE 0
  IN SetV(SetV(c, InsX(ins), value \div 2), 15, vf)

SUBN_8xy7(c, ins) ==
  LET r == OverflowingSub(V(c, InsY(ins)), V(c, InsX(ins)))
  IN SetV(SetV(c, InsX(ins), r[1]), 15, IF r[2] THEN 0 ELSE 1)

SHL_8xye(c, ins) ==
  LET value == IF quirks.SHIFTS_AGAINST_VY THEN V(c, InsY(ins)) ELSE V(c, InsX(ins))
      vf == IF BitAnd(value, 128) # 0 THEN 1 ELSE 0
  IN SetV(SetV(c, InsX(ins), (value * 2) % 256), 15, vf)

\* A 9xy0 that skips when the registers are equal.
SNE_9xy0_when_equal(c, ins) ==
  IF V(c, InsX(ins)) = V(c, InsY(ins)) THEN PcAdd2(c) ELSE c

SNE_9xy0(c, ins) == IF V(c, InsX(ins)) # V(c, InsY(ins)) THEN PcAdd2(c) ELSE c

LD_annn(c, ins) == [c EXCEPT !.registers.i = InsNNN(ins)]

JP_bnnn(c, ins) ==
  LET pc == IF quirks.JP_BEHAVIOUR = 0
            THEN Wrap(InsNNN(ins) + V(c, 0), 65536)
            ELSE Wrap(InsKK(ins) + V(c, InsX(ins)), 65536)
  IN [c EXCEPT !.registers.pc = Wrap(pc - 2, 65536)]

RND_cxkk(c, ins, rnd) == SetV(c, InsX(ins), BitAnd(rnd, InsKK(ins)))


\* The rate limit of DRW: a draw less than 1 / draws_per_second seconds
\* after the last one that went through.
DrawRateLimited(c, t) ==
  /\ IsSome(c.last_draw)
  /\ DurationSince(t, Unwrap(c.last_draw)) * c.draws_per_second < ClockHz

\* A rate-limited DRW that falls through to `pc += 2` instead of returning.
DRW_rate_limited_advancing(c) == PcAdd2(c)

\* What do_tick leaves of the machine when the rate limit makes it return.
DRW_rate_limited(c) == c

\* A `shr` in both modes, and a `rotate_right` in both modes.
SpriteColumns_shifting(data, x) ==
  { x + k : k \in { j \in 0..7 : (data \div (2 ^ (7 - j))) % 2 = 1
                                  /\ x + j < WIDTH } }
SpriteColumns_rotating(data, x) ==
  { (x + k) % WIDTH : k \in { j \in 0..7 : (data \div (2 ^ (7 - j))) % 2 = 1 } }

\* The columns a sprite byte lights when drawn from column x: bit 7 of the
\* byte lands on column x; `shr` drops what passes column 63, `rotate_right`
\* brings it back from column 0.
SpriteColumns(data, x) ==
  { IF quirks.CLIPPING THEN x + k ELSE (x + k) % WIDTH :
      k \in { j \in 0..7 : (data \div (2 ^ (7 - j))) % 2 = 1
                           /\ (quirks.CLIPPING => x + j < WIDTH) } }

\* An OR of the sprite into the row instead of an XOR.
SymDiff_union(a, b) == a \cup b

SymDiff(a, b) == (a \ b) \cup (b \ a)

\* A collision test that looks at the row after the XOR instead of before.
Collides_after_xor(row, data) == (SymDiff(row, data) \cap data) # {}

\* `(self.screen.0[y] & data) != 0`
Collides(row, data) == (row \cap data) # {}

\* The body of the `for idx in 0..n` loop and what follows it.
RECURSIVE DrawRows(_, _, _, _, _, _)
DrawRows(c, idx, n, x, y, collision) ==
  IF idx >= n
  THEN SetV(c, 15, IF collision THEN 1 ELSE 0)
  ELSE LET addr == Wrap(c.registers.i + idx, 65536)
       IN IF ~MemReadable(addr) THEN Panic(c, "index out of bounds")
          ELSE LET data == SpriteColumns(c.memory[addr], x)
                   hit == collision \/ Collides(c.screen[y], data)
                   drawn == [c EXCEPT !.screen[y] = SymDiff(@, data)]
               IN IF y + 1 >= HEIGHT
                  THEN IF quirks.CLIPPING
                       THEN SetV(drawn, 15, IF hit THEN 1 ELSE 0)
                       ELSE DrawRows(drawn, idx + 1, n, x, 0, hit)
                  ELSE DrawRows(drawn, idx + 1, n, x, y + 1, hit)

\* A DRW that reduces the column modulo the screen's height.
DRW_dxyn_column_mod_height(c, ins, t) ==
  LET x == V(c, InsX(ins)) % HEIGHT
      y == V(c, InsY(ins)) % HEIGHT
  IN DrawRows([c EXCEPT !.last_draw = Some(t)], 0, InsN(ins), x, y, FALSE)

\* DRW when the rate limit lets it through.
DRW_dxyn(c, ins, t) ==
  LET x == V(c, InsX(ins)) % WIDTH
      y == V(c, InsY(ins)) % HEIGHT
  IN DrawRows([c EXCEPT !.last_draw = Some(t)], 0, InsN(ins), x, y, FALSE)

SKP_ex9e(c, ins) ==
  LET vx == V(c, InsX(ins))
      q == get_key_state(c, vx)
  IN IF Ok(q) /\ c.keypad.key_map[vx] THEN PcAdd2(q) ELSE q

SKNP_exa1(c, ins) ==
  LET vx == V(c, InsX(ins))
      q == get_key_state(c, vx)
  IN IF Ok(q) /\ ~c.keypad.key_map[vx] THEN PcAdd2(q) ELSE q

LD_fx07(c, ins, t) ==
  SetV(c, InsX(ins), TimerRead(c.registers.timers[DELAY_TIMER], t))

\* An fx0a that does not step back when no release is pending.
LD_fx0a_advancing(c, ins) ==
  LET key == c.keypad.last_key
      q == get_released_key(c)
  IN IF IsSome(key) THEN SetV(q, InsX(ins), Unwrap(key)) ELSE q

LD_fx0a(c, ins) ==
  LET key == c.keypad.last_key
      q == get_released_key(c)
  IN IF IsSome(key) THEN SetV(q, InsX(ins), Unwrap(key)) ELSE PcSub2(q)

LD_fx15(c, ins, t) ==
  [c EXCEPT !.registers.timers[DELAY_TIMER] = TimerWrite(t, V(c, InsX(ins)))]

LD_fx18(c, ins, t) ==
  [c EXCEPT !.registers.timers[SOUND_TIMER] = TimerWrite(t, V(c, InsX(ins)))]

ADD_fx1e(c, ins) ==
  [c EXCEPT !.registers.i = Wrap(c.registers.i + V(c, InsX(ins)), 65536)]

LD_fx29(c, ins) ==
  LET product == V(c, InsX(ins)) * HEX_SPRITES_HEIGHT
  IN IF Overflows(product, 256) /\ overflow_checks
     THEN Panic(c, "attempt to multiply with overflow")
     ELSE [c EXCEPT !.registers.i =
                      Wrap(HEX_SPRITES_START_MEM + Wrap(product, 256), 65536)]

\* A decomposition whose tens are not reduced modulo 10.
LD_fx33_tens_unreduced(c, ins) ==
  LET vx == V(c, InsX(ins))
      i == c.registers.i
  IN MemWrite(MemWrite(MemWrite(c, i, vx \div 100), i + 1, vx \div 10),
              i + 2, vx % 10)

LD_fx33(c, ins) ==
  LET vx == V(c, InsX(ins))
      i == c.registers.i
      hundreds == vx \div 100
      tens == (vx \div 10) % 10
      ones == vx % 10
  IN MemWrite(MemWrite(MemWrite(c, i, hundreds), i + 1, tens), i + 2, ones)

\* The `for idx in 0..=x` loop of fx55 and the assignment to I after it.
RECURSIVE StoreRegisters(_, _, _, _)
StoreRegisters(c, idx, x, addr) ==
  IF ~Ok(c) THEN c
  ELSE IF idx > x
  THEN IF quirks.MEMORY_LOAD_SAVE_INCREMENT_I
       THEN [c EXCEPT !.registers.i = addr]
       ELSE c
  ELSE StoreRegisters(MemWrite(c, addr, V(c, idx)), idx + 1, x, addr + 1)

\* A store that stops before Vx.
LD_fx55_exclusive(c, ins) ==
  StoreRegisters(c, 0, InsX(ins) - 1, c.registers.i)

LD_fx55(c, ins) == StoreRegisters(c, 0, InsX(ins), c.registers.i)

\* The `for idx in 0..=x` loop of fx65 and the assignment to I after it.
RECURSIVE LoadRegisters(_, _, _, _)
LoadRegisters(c, idx, x, addr) ==
  IF idx > x
  THEN IF quirks.MEMORY_LOAD_SAVE_INCREMENT_I
       THEN [c EXCEPT !.registers.i = addr]
       ELSE c
  ELSE IF ~MemReadable(addr) THEN Panic(c, "index out of bounds")
  ELSE LoadRegisters(SetV(c, idx, c.memory[addr]), idx + 1, x, addr + 1)

LD_fx65(c, ins) == LoadRegisters(c, 0, InsX(ins), c.registers.i)

(* ------------------------------------------------------------------ *)
(* Fetch, decode, execute                                               *)
(* ------------------------------------------------------------------ *)

\* Memory::read_u16: the big-endian word at addr (both bytes in range).
\* A read_u16 that takes the low byte first.
read_u16_little_endian(mem, addr) == BitOr(mem[addr + 1] * 256, mem[addr])

read_u16(mem, addr) == BitOr(mem[addr] * 256, mem[addr + 1])

\* Memory::read_instruction: the four nibbles of the word at addr.
read_instruction(mem, addr) ==
  LET data == read_u16(mem, addr)
  IN << BitAnd(data \div 4096, 15), BitAnd(data \div 256, 15),
        BitAnd(data \div 16, 15), BitAnd(data, 15) >>

\* The match of do_tick: the first arm whose pattern fits.
Execute(c, ins, t, rnd) ==
  LET p1 == ins[1]  p2 == ins[2]  p3 == ins[3]  p4 == ins[4]
  IN CASE p1 = 0 /\ p2 = 0 /\ p3 = 14 /\ p4 = 0 -> CLS_00e0(c)
       [] p1 = 0 /\ p2 = 0 /\ p3 = 14 /\ p4 = 14 -> RET_00ee(c)
       [] p1 = 0 /\ ~(p2 = 0 /\ p3 = 14 /\ p4 \in {0, 14})
            -> Panic(c, "SYS not implemented.")
       [] p1 = 1 -> JP_1nnn(c, ins)
       [] p1 = 2 -> CALL_2nnn(c, ins)
       [] p1 = 3 -> SE_3xkk(c, ins)
       [] p1 = 4 -> SNE_4xkk(c, ins)
       [] p1 = 5 /\ p4 = 0 -> SE_5xy0(c, ins)
       [] p1 = 6 -> LD_6xkk(c, ins)
       [] p1 = 7 -> ADD_7xkk(c, ins)
       [] p1 = 8 /\ p4 = 0 -> LD_8xy0(c, ins)
       [] p1 = 8 /\ p4 = 1 -> OR_8xy1(c, ins)
       [] p1 = 8 /\ p4 = 2 -> AND_8xy2(c, ins)
       [] p1 = 8 /\ p4 = 3 -> XOR_8xy3(c, ins)
       [] p1 = 8 /\ p4 = 4 -> ADD_8xy4(c, ins)
       [] p1 = 8 /\ p4 = 5 -> SUB_8xy5(c, ins)
       [] p1 = 8 /\ p4 = 6 -> SHR_8xy6(c, ins)
       [] p1 = 8 /\ p4 = 7 -> SUBN_8xy7(c, ins)
       [] p1 = 8 /\ p4 = 14 -> SHL_8xye(c, ins)
       [] p1 = 9 /\ p4 = 0 -> SNE_9xy0(c, ins)
       [] p1 = 10 -> LD_annn(c, ins)
       [] p1 = 11 -> JP_bnnn(c, ins)
       [] p1 = 12 -> RND_cxkk(c, ins, rnd)
       [] p1 = 13 -> DRW_dxyn(c, ins, t)
       [] p1 = 14 /\ p3 = 9 /\ p4 = 14 -> SKP_ex9e(c, ins)
       [] p1 = 14 /\ p3 = 10 /\ p4 = 1 -> SKNP_exa1(c, ins)
       [] p1 = 15 /\ p3 = 0 /\ p4 = 7 -> LD_fx07(c, ins, t)
       [] p1 = 15 /\ p3 = 0 /\ p4 = 10 -> LD_fx0a(c, ins)
       [] p1 = 15 /\ p3 = 1 /\ p4 = 5 -> LD_fx15(c, ins, t)
       [] p1 = 15 /\ p3 = 1 /\ p4 = 8 -> LD_fx18(c, ins, t)
       [] p1 = 15 /\ p3 = 1 /\ p4 = 14 -> ADD_fx1e(c, ins)
       [] p1 = 15 /\ p3 = 2 /\ p4 = 9 -> LD_fx29(c, ins)
       [] p1 = 15 /\ p3 = 3 /\ p4 = 3 -> LD_fx33(c, ins)
       [] p1 = 15 /\ p3 = 5 /\ p4 = 5 -> LD_fx55(c, ins)
       [] p1 = 15 /\ p3 = 6 /\ p4 = 5 -> LD_fx65(c, ins)
       [] OTHER -> Panic(c, "Unknown instruction.")

\* The instruction do_tick is about to execute (the machine must be able to
\* fetch it).
CanFetch(c) == c.registers.pc + 1 < MEMORY_SIZE
Fetched(c) == read_instruction(c.memory, c.registers.pc)

\* One call of do_tick at time t, `rnd` the byte the random source yields.
do_tick(c, t, rnd) ==
  IF ~CanFetch(c) THEN Panic(c, "index out of bounds")
  ELSE LET instruction == Fetched(c)
       IN IF instruction[1] = 13 /\ DrawRateLimited(c, t)
          THEN DRW_rate_limited(c)
          ELSE handle_beep(PcAdd2(Execute(c, instruction, t, rnd)), t)


(* ------------------------------------------------------------------ *)
(* The Cpu's API                                                        *)
(* ------------------------------------------------------------------ *)

\* Cpu::new at time t. cpu.rs calls Registers::new() without the pc_begin
\* of registers.rs; load_rom sets pc before any instruction is fetched.
NewCpu(t) ==
  [ registers |-> NewRegisters(t, 0),
    memory |-> NewMemory,
    screen |-> NewScreen,
    keypad |-> NewKeypad,
    beep_handler |-> None,
    beep_enabled |-> TRUE,
    rom_loaded |-> FALSE,
    last_draw |-> None,
    halted |-> FALSE,
    draws_per_second |-> DEFAULT_DRAWS_PER_SECOND,
    ticks_per_frame |-> DEFAULT_TICKS_PER_FRAME,
    panic |-> "none" ]

\* The program copy loop (memory.rs), which cpu.rs calls as
\* Memory::load_rom: byte `index` goes to program_begin + index.
RECURSIVE MemoryLoadRom(_, _, _, _)
MemoryLoadRom(c, program, program_begin, index) ==
  IF ~Ok(c) \/ index >= Len(program) THEN c
  ELSE IF program_begin + index > 65535
  THEN Panic(c, "Program read overflowed. Stopping.")
  ELSE MemoryLoadRom(MemWrite(c, program_begin + index, program[index + 1]),
                     program, program_begin, index + 1)

load_rom(c, program, program_begin) ==
  LET m == MemoryLoadRom(c, program, program_begin, 0)
  IN IF ~Ok(m) THEN m
     ELSE [m EXCEPT !.registers.pc = program_begin, !.rom_loaded = TRUE]

\* A clear that leaves the rate limit's memory of the last draw.
clear_keeping_last_draw(c, t) ==
  handle_beep([c EXCEPT !.registers = NewRegisters(t, 0),
                        !.memory = NewMemory,
                        !.screen = NewScreen,
                        !.keypad = NewKeypad,
                        !.rom_loaded = FALSE,
                        !.halted = FALSE], t)

clear(c, t) ==
  handle_beep([c EXCEPT !.registers = NewRegisters(t, 0),
                        !.memory = NewMemory,
                        !.screen = NewScreen,
                        !.keypad = NewKeypad,
                        !.rom_loaded = FALSE,
                        !.last_draw = None,
                        !.halted = FALSE], t)

add_beep_handler(c) == [c EXCEPT !.beep_handler = Some([device |-> FALSE])]
remove_beep_handler(c) == [c EXCEPT !.beep_handler = None]

\* A tick() that forgets to look at rom_loaded.
TickIterations_ignoring_rom(c) == IF ~c.halted THEN c.ticks_per_frame ELSE 0

\* The number of do_tick calls a call of tick() makes.
\* A loop that runs one step short.
TickIterations_one_short(c) ==
  IF ~c.halted /\ c.rom_loaded THEN c.ticks_per_frame - 1 ELSE 0

TickIterations(c) == IF ~c.halted /\ c.rom_loaded THEN c.ticks_per_frame ELSE 0

halt(c) == [c EXCEPT !.halted = TRUE]
resume(c) == [c EXCEPT !.halted = FALSE]
\* A toggle that only ever halts.
toggle_halt_halting(c) == [c EXCEPT !.halted = TRUE]

toggle_halt(c) == [c EXCEPT !.halted = ~c.halted]

\* A disable_beep that only lowers the flag.
disable_beep_flag_only(c, t) == [c EXCEPT !.beep_enabled = FALSE]

enable_beep(c, t) == handle_beep([c EXCEPT !.beep_enabled = TRUE], t)
disable_beep(c, t) == handle_beep([c EXCEPT !.beep_enabled = FALSE], t)
toggle_beep_enabled(c, t) ==
  IF c.beep_enabled THEN disable_beep(c, t) ELSE enable_beep(c, t)

(* ------------------------------------------------------------------ *)
(* Programs the host loads                                              *)
(* ------------------------------------------------------------------ *)

\* 6012: the ROM of test_ld_6xkk.
RomLd == <<96, 18>>

\* V0 := 1; sound timer := V0; then draw glyph row 0 at (1, 1) for ever.
\*   200: 6001   202: F018   204: D001   206: 1204
RomDrawLoop == <<96, 1, 240, 24, 208, 1, 18, 4>>

\* Wait for a key release into V0, for ever.
\*   200: F00A   202: 1200
RomKeyWait == <<240, 10, 18, 0>>

Roms == {RomLd, RomDrawLoop, RomKeyWait}

\* The keys the host presses and releases: Q and A of the keyboard.
Keys == {4, 7}

(* ------------------------------------------------------------------ *)
(* Actions                                                              *)
(* ------------------------------------------------------------------ *)

Init ==
  /\ now = 0
  /\ cpu = NewCpu(0)
  /\ tick_left = 0
  /\ overflow_checks \in BOOLEAN
  /\ quirks = DefaultQuirks
  /\ last_call = "new"
  /\ calls = 0
  /\ last_step = None

\* What last_step records of a do_tick call that took c to d at time t.
StepRecord(c, d, t) ==
  [ pc |-> c.registers.pc,
    last_key |-> c.keypad.last_key,
    ins |-> IF CanFetch(c) THEN Fetched(c) ELSE <<>>,
    outcome |-> IF ~Ok(d) THEN "panicked"
                ELSE IF CanFetch(c) /\ Fetched(c)[1] = 13 /\ DrawRateLimited(c, t)
                THEN "rate_limited"
                ELSE "executed" ]

\* The host is between two calls and may make another one.
HostMayCall == Ok(cpu) /\ tick_left = 0 /\ calls < MaxCalls

Called(name) ==
  /\ last_call' = name
  /\ calls' = calls + 1
  /\ UNCHANGED <<now, overflow_checks, quirks, last_step>>

LoadRom(program, program_begin) ==
  /\ HostMayCall
  /\ cpu' = load_rom(cpu, program, program_begin)
  /\ Called("load_rom")
  /\ UNCHANGED tick_left

Clear ==
  /\ HostMayCall
  /\ cpu' = clear(cpu, now)
  /\ Called("clear")
  /\ UNCHANGED tick_left

AddBeepHandler ==
  /\ HostMayCall
  /\ cpu' = add_beep_handler(cpu)
  /\ Called("add_beep_handler")
  /\ UNCHANGED tick_left

\* tick(): the loop is entered with TickIterations iterations to make.
Tick ==
  /\ HostMayCall
  /\ tick_left' = TickIterations(cpu)
  /\ Called("tick")
  /\ UNCHANGED cpu

\* One iteration of the loop of tick().
DoTick ==
  /\ Ok(cpu)
  /\ tick_left > 0
  /\ \E rnd \in IF CanFetch(cpu) /\ Fetched(cpu)[1] = 12 THEN U8 ELSE {0} :
       cpu' = do_tick(cpu, now, rnd)
  /\ tick_left' = IF Ok(cpu') THEN tick_left - 1 ELSE tick_left
  /\ last_step' = Some(StepRecord(cpu, cpu', now))
  /\ UNCHANGED <<now, overflow_checks, quirks, last_call, calls>>

Halt ==
  /\ HostMayCall
  /\ cpu' = halt(cpu)
  /\ Called("halt")
  /\ UNCHANGED tick_left

Resume ==
  /\ HostMayCall
  /\ cpu' = resume(cpu)
  /\ Called("resume")
  /\ UNCHANGED tick_left

ToggleHalt ==
  /\ HostMayCall
  /\ cpu' = toggle_halt(cpu)
  /\ Called("toggle_halt")
  /\ UNCHANGED tick_left

SetKey(idx, state) ==
  /\ HostMayCall
  /\ cpu' = set_key(cpu, idx, state)
  /\ Called("set_key")
  /\ UNCHANGED tick_left

\* Time passes.
Advance ==
  /\ Ok(cpu)
  /\ now < MaxNow
  /\ now' = now + 1
  /\ UNCHANGED <<cpu, tick_left, overflow_checks, quirks, last_call, calls,
                 last_step>>

Next ==
  \/ \E program \in Roms : LoadRom(program, PROGRAM_BEGIN)
  \/ Clear
  \/ AddBeepHandler
  \/ Tick
  \/ DoTick
  \/ Halt
  \/ Resume
  \/ ToggleHalt
  \/ \E idx \in Keys, state \in BOOLEAN : SetKey(idx, state)
  \/ Advance

Spec == Init /\ [][Next]_vars


(* ------------------------------------------------------------------ *)
(* Arithmetic: ROMs that set two registers and combine them             *)
(* ------------------------------------------------------------------ *)

AluRegs == {0, 1, 15}
AluValues == {0, 1, 32, 37, 65, 128, 243, 255}
\* The low nibble of the 8xyN instruction: ADD, SUB, SUBN.
AluOps == {4, 5, 7}

\*   200: 6xaa   202: 6ybb   204: 8xyN
AluRoms ==
  { <<96 + x, a, 96 + y, b, 128 + x, 16 * y + op>> :
      x \in AluRegs, y \in AluRegs, a \in AluValues, b \in AluValues,
      op \in AluOps }

NextAlu ==
  \/ \E program \in AluRoms :
       ~cpu.rom_loaded /\ LoadRom(program, PROGRAM_BEGIN)
  \/ Tick
  \/ DoTick

SpecAlu == Init /\ [][NextAlu]_vars

(* ------------------------------------------------------------------ *)
(* Call stack: ROMs of CALL and RET                                     *)
(* ------------------------------------------------------------------ *)

\* RET, CALL 000, CALL 200, CALL 202, CALL 204
StackIns == {<<0, 238>>, <<32, 0>>, <<34, 0>>, <<34, 2>>, <<34, 4>>}

\* Sixteen nested calls, each CALL followed by a RET at its return address,
\* and a RET where the last CALL lands:
\*   200 + 4k: CALL 200 + 4(k + 1)   202 + 4k: RET   (k = 0..15)   240: RET
RomCallChain ==
  [ n \in 1..66 |->
      LET offset == n - 1
          target == PROGRAM_BEGIN + 4 * ((offset \div 4) + 1)
      IN IF offset < 64 /\ offset % 4 = 0 THEN 32 + (target \div 256)
         ELSE IF offset < 64 /\ offset % 4 = 1 THEN target % 256
         ELSE IF offset % 4 = 2 \/ offset = 64 THEN 0
         ELSE 238 ]

StackRoms ==
  { a \o b \o c : a \in StackIns, b \in StackIns, c \in StackIns }
    \cup {RomCallChain}

NextStack ==
  \/ \E program \in StackRoms :
       ~cpu.rom_loaded /\ LoadRom(program, PROGRAM_BEGIN)
  \/ Tick
  \/ DoTick

SpecStack == Init /\ [][NextStack]_vars

(* ------------------------------------------------------------------ *)
(* Index register and memory: ROMs of indexed instructions              *)
(* ------------------------------------------------------------------ *)

\* 000, 300, FFD, FFE, FFF
MemAddrs == {0, 768, 4093, 4094, 4095}
MemValues == {0, 196, 255}
\* F033, F155, F165, F01E, F029, D003
MemOps == {<<240, 51>>, <<241, 85>>, <<241, 101>>, <<240, 30>>, <<240, 41>>,
           <<208, 3>>}

\*   200: Annn   202: 60kk   204: first op   206: second op
MemRoms ==
  { <<160 + (nnn \div 256), nnn % 256, 96, kk>> \o op1 \o op2 :
      nnn \in MemAddrs, kk \in MemValues, op1 \in MemOps, op2 \in MemOps }

NextMem ==
  \/ \E program \in MemRoms :
       ~cpu.rom_loaded /\ LoadRom(program, PROGRAM_BEGIN)
  \/ Tick
  \/ DoTick

SpecMem == Init /\ [][NextMem]_vars


(* ------------------------------------------------------------------ *)
(* Keypad: key events between frames, ROMs that query and wait          *)
(* ------------------------------------------------------------------ *)

\* V0 := 7; skip the wait while key V0 is down; wait for a release into V1.
\*   200: 6007   202: E09E   204: F10A   206: 1202
RomSkpWait == <<96, 7, 224, 158, 241, 10, 18, 2>>

\* The same with SKNP: skip the wait while key V0 is up.
\*   200: 6007   202: E0A1   204: F10A   206: 1202
RomSknpWait == <<96, 7, 224, 161, 241, 10, 18, 2>>

KeyRoms == {RomKeyWait, RomSkpWait, RomSknpWait}

\* The event loop hands one key event to the keypad; it runs before the
\* frame's tick(), any number of events per frame.
KeyEvent(idx, state) ==
  /\ Ok(cpu)
  /\ tick_left = 0
  /\ cpu' = set_key(cpu, idx, state)
  /\ last_call' = "set_key"
  /\ UNCHANGED <<now, tick_left, overflow_checks, quirks, calls, last_step>>

NextKeys ==
  \/ \E program \in KeyRoms :
       ~cpu.rom_loaded /\ LoadRom(program, PROGRAM_BEGIN)
  \/ Tick
  \/ DoTick
  \/ \E idx \in Keys, state \in BOOLEAN : KeyEvent(idx, state)

SpecKeys == Init /\ [][NextKeys]_vars

(* ------------------------------------------------------------------ *)
(* Drawing: ROMs that draw a sprite twice, in a clipping and in a       *)
(* wrapping build                                                       *)
(* ------------------------------------------------------------------ *)

\* The values of Vx and of Vy at a draw: the column is 0, 60, 63 and the
\* row 0, 30, 31.
DrawColumns == {0, 124, 255}
DrawLines == {0, 62, 255}
DrawHeights == {1, 5}

\* The sprite the ROMs draw, eight columns wide.
DrawSprite == <<255, 129, 195, 24, 255>>

\*   200: 60aa   202: 61bb   204: A20E   206: D01n   208: 60cc
\*   20A: D01n   20C: 0000   20E: the sprite
DrawRoms ==
  { <<96, aa, 97, bb, 162, 14, 208, 16 + n, 96, cc, 208, 16 + n, 0, 0>>
      \o DrawSprite :
      aa \in DrawColumns, bb \in DrawLines, cc \in DrawColumns,
      n \in DrawHeights }

\* CLIPPING is a constant of the build: both builds are considered.
InitDraw ==
  /\ now = 0
  /\ cpu = NewCpu(0)
  /\ tick_left = 0
  /\ overflow_checks \in BOOLEAN
  /\ quirks \in {[DefaultQuirks EXCEPT !.CLIPPING = clipping] :
                  clipping \in BOOLEAN}
  /\ last_call = "new"
  /\ calls = 0
  /\ last_step = None

NextDraw ==
  \/ \E program \in DrawRoms :
       ~cpu.rom_loaded /\ LoadRom(program, PROGRAM_BEGIN)
  \/ Tick
  \/ DoTick
  \/ Advance

SpecDraw == InitDraw /\ [][NextDraw]_vars

(* ------------------------------------------------------------------ *)
(* Timers: ROMs that write the delay timer and read it back             *)
(* ------------------------------------------------------------------ *)

TimerValues == {0, 1, 10, 59, 60, 61, 200, 255}

\*   200: 60vv   202: F015   204: F107   206: 0000
TimerRoms == { <<96, value, 240, 21, 241, 7>> : value \in TimerValues }

\* A whole second passes, once, at any moment of the first instants.
AdvanceSecond ==
  /\ Ok(cpu)
  /\ now <= MaxNow
  /\ now' = now + ClockHz
  /\ UNCHANGED <<cpu, tick_left, overflow_checks, quirks, last_call, calls,
                 last_step>>

NextTimer ==
  \/ \E program \in TimerRoms :
       ~cpu.rom_loaded /\ LoadRom(program, PROGRAM_BEGIN)
  \/ Tick
  \/ DoTick
  \/ Advance
  \/ AdvanceSecond

SpecTimer == Init /\ [][NextTimer]_vars

(* ------------------------------------------------------------------ *)
(* Loading and decoding: two-instruction ROMs loaded at several origins *)
(* ------------------------------------------------------------------ *)

\* Words that fit no arm of the match: 0000, 00E1, 0123, 5011, 9011, 8018,
\* 801D, 801F, E09F, E0A0, F000, F075, F0FF.
UndefinedWords ==
  { <<0, 0>>, <<0, 225>>, <<1, 35>>, <<80, 17>>, <<144, 17>>, <<128, 24>>,
    <<128, 29>>, <<128, 31>>, <<224, 159>>, <<224, 160>>, <<240, 0>>,
    <<240, 117>>, <<240, 255>> }

\* Their defined neighbours: 00E0, 5010, 9010, 801E, E09E, F01E.
DefinedWords ==
  { <<0, 224>>, <<80, 16>>, <<144, 16>>, <<128, 30>>, <<224, 158>>,
    <<240, 30>> }

\*   origin: 6012   origin + 2: the word
DecodeRoms == { <<96, 18>> \o word : word \in UndefinedWords \cup DefinedWords }

\* 200, and FFC, FFD, FFF: a four-byte ROM fits from FFC and not beyond.
LoadOrigins == {512, 4092, 4093, 4095}

NextLoad ==
  \/ \E program \in DecodeRoms, program_begin \in LoadOrigins :
       ~cpu.rom_loaded /\ LoadRom(program, program_begin)
  \/ Tick
  \/ DoTick

SpecLoad == Init /\ [][NextLoad]_vars

(* ------------------------------------------------------------------ *)
(* Sound: the host's Cpu, which has a beep handler, run frame by frame  *)
(* ------------------------------------------------------------------ *)

\* V0 := 1; sound timer := V0; then loop on the spot.
\*   200: 6001   202: F018   204: 1204
RomSound == <<96, 1, 240, 24, 18, 4>>

\* The same with V0 := 0: the sound timer is written 0.
RomSilent == <<96, 0, 240, 24, 18, 4>>

SoundRoms == {RomSound, RomSilent}

\* The host gives its Cpu a beep handler right after creating it.
InitSound ==
  /\ now = 0
  /\ cpu = add_beep_handler(NewCpu(0))
  /\ tick_left = 0
  /\ overflow_checks \in BOOLEAN
  /\ quirks = DefaultQuirks
  /\ last_call = "add_beep_handler"
  /\ calls = 0
  /\ last_step = None

\* The host's loop calls tick() once per frame, for as long as it runs.
Frame ==
  /\ Ok(cpu)
  /\ tick_left = 0
  /\ tick_left' = TickIterations(cpu)
  /\ last_call' = "tick"
  /\ UNCHANGED <<cpu, now, overflow_checks, quirks, calls, last_step>>

EnableBeep ==
  /\ HostMayCall
  /\ cpu' = enable_beep(cpu, now)
  /\ Called("enable_beep")
  /\ UNCHANGED tick_left

DisableBeep ==
  /\ HostMayCall
  /\ cpu' = disable_beep(cpu, now)
  /\ Called("disable_beep")
  /\ UNCHANGED tick_left

ToggleBeepEnabled ==
  /\ HostMayCall
  /\ cpu' = toggle_beep_enabled(cpu, now)
  /\ Called("toggle_beep_enabled")
  /\ UNCHANGED tick_left

NextSound ==
  \/ \E program \in SoundRoms :
       ~cpu.rom_loaded /\ LoadRom(program, PROGRAM_BEGIN)
  \/ Frame
  \/ DoTick
  \/ Advance
  \/ Halt
  \/ Resume
  \/ ToggleHalt
  \/ EnableBeep
  \/ DisableBeep
  \/ ToggleBeepEnabled

SpecSound == InitSound /\ [][NextSound]_vars

(* ------------------------------------------------------------------ *)
(* Quirks: ROMs of register transfers and shifts, under either build    *)
(* ------------------------------------------------------------------ *)

\* 000, 200, 300, FF0, FFE
TransferAddrs == {0, 512, 768, 4080, 4094}
TransferRegs == {0, 1, 2, 15}

\*   200: 6011   202: 6122   204: 6F33   206: Annn   208: Fx55 (85) or Fx65 (101)
TransferRoms ==
  { <<96, 17, 97, 34, 111, 51, 160 + (nnn \div 256), nnn % 256, 240 + x, op>> :
      nnn \in TransferAddrs, x \in TransferRegs, op \in {85, 101} }

ShiftValues == {0, 1, 128, 255}

\*   200: 6xaa   202: 6ybb   204: 8xy6 (6) or 8xyE (14)
ShiftRoms ==
  { <<96 + x, aa, 96 + y, bb, 128 + x, y * 16 + op>> :
      x \in AluRegs, y \in AluRegs,
      aa \in ShiftValues, bb \in ShiftValues, op \in {6, 14} }

\* SHIFTS_AGAINST_VY and MEMORY_LOAD_SAVE_INCREMENT_I are constants of the
\* build: the four builds are considered.
InitQuirks ==
  /\ now = 0
  /\ cpu = NewCpu(0)
  /\ tick_left = 0
  /\ overflow_checks \in BOOLEAN
  /\ quirks \in {[DefaultQuirks EXCEPT !.SHIFTS_AGAINST_VY = against_vy,
                                       !.MEMORY_LOAD_SAVE_INCREMENT_I = increment] :
                  against_vy \in BOOLEAN, increment \in BOOLEAN}
  /\ last_call = "new"
  /\ calls = 0
  /\ last_step = None

NextQuirks ==
  \/ \E program \in TransferRoms :
       ~cpu.rom_loaded /\ LoadRom(program, PROGRAM_BEGIN)
  \/ \E program \in ShiftRoms :
       ~cpu.rom_loaded /\ LoadRom(program, PROGRAM_BEGIN)
  \/ Tick
  \/ DoTick

SpecQuirks == InitQuirks /\ [][NextQuirks]_vars

(* ------------------------------------------------------------------ *)
(* Decimal digits: ROMs of fx33 on every value of a register            *)
(* ------------------------------------------------------------------ *)

\* 300, FFD
BcdAddrs == {768, 4093}

\*   200: 6xkk   202: Annn   204: Fx33
BcdRoms ==
  { <<96 + x, kk, 160 + (nnn \div 256), nnn % 256, 240 + x, 51>> :
      x \in {0, 15}, kk \in U8, nnn \in BcdAddrs }

NextBcd ==
  \/ \E program \in BcdRoms :
       ~cpu.rom_loaded /\ LoadRom(program, PROGRAM_BEGIN)
  \/ Tick
  \/ DoTick

SpecBcd == Init /\ [][NextBcd]_vars

(* ------------------------------------------------------------------ *)
(* Bitwise operations: ROMs of 8xy1, 8xy2 and 8xy3                      *)
(* ------------------------------------------------------------------ *)

LogicValues == {0, 1, 129, 170, 255}

\*   200: 6F01   202: 6xaa   204: 6ybb   206: 8xyN
LogicRoms ==
  { <<111, 1, 96 + x, aa, 96 + y, bb, 128 + x, y * 16 + op>> :
      x \in AluRegs, y \in AluRegs,
      aa \in LogicValues, bb \in LogicValues, op \in {1, 2, 3} }

NextLogic ==
  \/ \E program \in LogicRoms :
       ~cpu.rom_loaded /\ LoadRom(program, PROGRAM_BEGIN)
  \/ Tick
  \/ DoTick

SpecLogic == Init /\ [][NextLogic]_vars

(* ------------------------------------------------------------------ *)
(* Jumps: ROMs of 1nnn and bnnn, under either JP_BEHAVIOUR              *)
(* ------------------------------------------------------------------ *)

\* 000, 001, 002, 1FE, 204, FFE, FFF
JumpTargets == {0, 1, 2, 510, 516, 4094, 4095}
JumpValues == {0, 1, 2, 255}

\*   200: 60vv   202: 6102   204: 1nnn (16) or Bnnn (176)
JumpRoms ==
  { <<96, v0, 97, 2, op + (nnn \div 256), nnn % 256>> :
      v0 \in JumpValues, nnn \in JumpTargets, op \in {16, 176} }

\* JP_BEHAVIOUR is a constant of the build: both builds are considered.
InitJump ==
  /\ now = 0
  /\ cpu = NewCpu(0)
  /\ tick_left = 0
  /\ overflow_checks \in BOOLEAN
  /\ quirks \in {[DefaultQuirks EXCEPT !.JP_BEHAVIOUR = behaviour] :
                  behaviour \in {0, 1}}
  /\ last_call = "new"
  /\ calls = 0
  /\ last_step = None

NextJump ==
  \/ \E program \in JumpRoms :
       ~cpu.rom_loaded /\ LoadRom(program, PROGRAM_BEGIN)
  \/ Tick
  \/ DoTick

SpecJump == InitJump /\ [][NextJump]_vars

(* ------------------------------------------------------------------ *)
(* Skips: ROMs of the six conditional skips                             *)
(* ------------------------------------------------------------------ *)

SkipValues == {4, 7, 15, 16}

\*   200: 60aa   202: 61bb   204: 30bb (48), 40bb (64), 5010 (80, 16),
\*   9010 (144, 16), E09E (224, 158) or E0A1 (224, 161)
SkipRoms ==
  UNION { { <<96, aa, 97, bb>> \o op :
              op \in {<<48, bb>>, <<64, bb>>, <<80, 16>>, <<144, 16>>,
                       <<224, 158>>, <<224, 161>>} } :
          aa \in SkipValues, bb \in SkipValues }

NextSkip ==
  \/ \E program \in SkipRoms :
       ~cpu.rom_loaded /\ LoadRom(program, PROGRAM_BEGIN)
  \/ Tick
  \/ DoTick
  \/ \E idx \in Keys, state \in BOOLEAN : KeyEvent(idx, state)

SpecSkip == Init /\ [][NextSkip]_vars

(* ------------------------------------------------------------------ *)
(* Decoding: ROMs of one word                                           *)
(* ------------------------------------------------------------------ *)

\* 00, 01, 0F, 10, 12, 34, 7F, 80, A5, EE, F0, FF
WordBytes == {0, 1, 15, 16, 18, 52, 127, 128, 165, 238, 240, 255}

NextDecode ==
  \/ \E msb \in WordBytes, lsb \in WordBytes :
       ~cpu.rom_loaded /\ LoadRom(<<msb, lsb>>, PROGRAM_BEGIN)
  \/ Tick
  \/ DoTick

SpecDecode == Init /\ [][NextDecode]_vars

(* ------------------------------------------------------------------ *)
(* Nested calls: ROMs of d calls and d returns from a stack pointer k   *)
(* ------------------------------------------------------------------ *)

ChainStarts == {0, 7, 15}
ChainDepths == {1, 2, 16}
ChainTicks == 50

\* Where the nest of calls of a chain ROM begins.
ChainBase(k) == PROGRAM_BEGIN + 2 * k

\* The word at 200 + 2 * index of the chain ROM of k and d: k calls of the
\* next instruction, which are never returned from and leave sp at k, and
\* then, from base = 200 + 2k on,
\*   base + 4j: CALL base + 4(j + 1)   (j = 0..d-1)
\*   base + 2:  JP base + 2            (where the first call returns)
\*   base + 4j + 2: RET                (j = 1..d-1)
\*   base + 4d: RET
ChainWord(k, d, index) ==
  LET r == index - k
  IN IF index < k THEN 8192 + PROGRAM_BEGIN + 2 * (index + 1)
     ELSE IF r % 2 = 0 /\ r < 2 * d THEN 8192 + ChainBase(k) + 2 * r + 4
     ELSE IF r = 1 THEN 4096 + ChainBase(k) + 2
     ELSE 238

ChainRom(k, d) ==
  [ n \in 1..(2 * (k + 2 * d + 1)) |->
      LET word == ChainWord(k, d, (n - 1) \div 2)
      IN IF n % 2 = 1 THEN word \div 256 ELSE word % 256 ]

\* The "Ticks/cycles per frame" slider of the host.
SetTicksPerFrame(n) ==
  /\ HostMayCall
  /\ cpu' = [cpu EXCEPT !.ticks_per_frame = n]
  /\ Called("ticks_per_frame")
  /\ UNCHANGED tick_left

NextCalls ==
  \/ \E k \in ChainStarts, d \in ChainDepths :
       ~cpu.rom_loaded /\ LoadRom(ChainRom(k, d), PROGRAM_BEGIN)
  \/ cpu.ticks_per_frame # ChainTicks /\ SetTicksPerFrame(ChainTicks)
  \/ Tick
  \/ DoTick

SpecCalls == Init /\ [][NextCalls]_vars

(* ------------------------------------------------------------------ *)
(* Vocabulary of the properties                                         *)
(* ------------------------------------------------------------------ *)

\* The instruction the next do_tick call fetches (no nibble is 16).
Fetching == IF CanFetch(cpu) THEN Fetched(cpu) ELSE <<16, 16, 16, 16>>

\* The last do_tick call fetched `ins` and ended with `outcome`.
LastStep(ins, outcome) ==
  /\ IsSome(last_step)
  /\ Unwrap(last_step).ins = ins
  /\ Unwrap(last_step).outcome = outcome

\* `program` is in memory from program_begin on.
InMemory(program, program_begin) ==
  \A k \in 1..Len(program) : cpu.memory[program_begin + k - 1] = program[k]

\* The running tick() call, if any, has ended: it returned or it panicked.
TickEnded == tick_left = 0 \/ ~Ok(cpu)

(* ------------------------------------------------------------------ *)
(* C1                                                                   *)
(* ------------------------------------------------------------------ *)

\* C1: a call of tick() while the Cpu is halted or has no ROM loaded makes
\* no do_tick call and leaves the whole Cpu (registers, pc, sp, stack,
\* memory, screen, keypad) as it was.
C1_TickNoOp ==
  [][ (Tick /\ (cpu.halted \/ ~cpu.rom_loaded))
        => (tick_left' = 0 /\ cpu' = cpu /\ last_step' = last_step) ]_vars

\* A tick() was called on a halted Cpu with a ROM loaded, and returned.
C1_Witness ==
  /\ last_call = "tick"
  /\ cpu.halted
  /\ cpu.rom_loaded
  /\ tick_left = 0
  /\ last_step = None

(* ------------------------------------------------------------------ *)
(* C2                                                                   *)
(* ------------------------------------------------------------------ *)

\* C2: after load_rom returns the Cpu is not halted, whatever calls of
\* halt, resume and toggle_halt came before.
C2_LoadClearsHalted ==
  (last_call = "load_rom" /\ Ok(cpu)) => ~cpu.halted

(* ------------------------------------------------------------------ *)
(* C3                                                                   *)
(* ------------------------------------------------------------------ *)

\* The next do_tick call fetches a DRW that the rate limit turns away.
DrawTurnedAway == Fetching[1] = 13 /\ DrawRateLimited(cpu, now)

C4_LdScenario ==
  ( /\ calls = 2
    /\ last_call = "tick"
    /\ cpu.rom_loaded
    /\ InMemory(RomLd, PROGRAM_BEGIN)
    /\ cpu.ticks_per_frame = DEFAULT_TICKS_PER_FRAME
    /\ TickEnded )
    => ( /\ Ok(cpu)
         /\ cpu.registers.v[0] = 18
         /\ cpu.registers.pc = 514 )

(* ------------------------------------------------------------------ *)
(* C5                                                                   *)
(* ------------------------------------------------------------------ *)

\* What the beep handler's device is after a handle_beep call.
BeepFollowsTimer(c, t) ==
  IsSome(c.beep_handler) =>
    ( Unwrap(c.beep_handler).device
        = (TimerRead(c.registers.timers[SOUND_TIMER], t) > 0 /\ c.beep_enabled) )

\* C5: every do_tick call that returns has run the sound-timer check, a
\* rate-limited DRW and a re-executed key wait included: the handler's
\* device then plays exactly when the sound timer reads non-zero.
C5_BeepCheckedEveryStep ==
  [][ (DoTick /\ Ok(cpu')) => BeepFollowsTimer(cpu', now') ]_vars

(* ------------------------------------------------------------------ *)
(* C6                                                                   *)
(* ------------------------------------------------------------------ *)

Carry(a, b) == IF a + b > 255 THEN 1 ELSE 0

\* C6 as stated: after 8xy4, VF is the carry of Vx + Vy and Vx is the sum
\* modulo 256, for every x and y.
C6_AddAllRegisters ==
  [][ (DoTick /\ Fetching[1] = 8 /\ Fetching[4] = 4)
        => LET x == Fetching[2]
               y == Fetching[3]
           IN /\ cpu'.registers.v[15] = Carry(V(cpu, x), V(cpu, y))
              /\ cpu'.registers.v[x] = (V(cpu, x) + V(cpu, y)) % 256 ]_vars

\* C6 as amended: after 8xy4, VF is the carry of Vx + Vy for every x and
\* y, and Vx is the sum modulo 256 when x is not F (the flag is written
\* last, over the sum); no other register changes.
C6_AddFlagLast ==
  [][ (DoTick /\ Fetching[1] = 8 /\ Fetching[4] = 4)
        => LET x == Fetching[2]
               y == Fetching[3]
           IN /\ Ok(cpu')
              /\ cpu'.registers.v[15] = Carry(V(cpu, x), V(cpu, y))
              /\ x # 15 => cpu'.registers.v[x] = (V(cpu, x) + V(cpu, y)) % 256
              /\ \A r \in Reg \ {x, 15} : cpu'.registers.v[r] = V(cpu, r) ]_vars

\* 8014 has run on V0 = F3, V1 = 41: V0 = 34, VF = 1.
C6_Witness ==
  /\ LastStep(<<8, 0, 1, 4>>, "executed")
  /\ cpu.registers.v[0] = 52
  /\ cpu.registers.v[1] = 65
  /\ cpu.registers.v[15] = 1

(* ------------------------------------------------------------------ *)
(* C7                                                                   *)
(* ------------------------------------------------------------------ *)

NoBorrow(a, b) == IF a >= b THEN 1 ELSE 0

\* C7 as stated: after 8xy5, Vx = (Vx - Vy) mod 256 and VF = 1 iff
\* Vx >= Vy; after 8xy7, Vx = (Vy - Vx) mod 256 and VF = 1 iff Vy >= Vx;
\* for every x and y.
C7_SubAllRegisters ==
  [][ (DoTick /\ Fetching[1] = 8 /\ Fetching[4] \in {5, 7})
        => LET x == Fetching[2]
               y == Fetching[3]
               a == IF Fetching[4] = 5 THEN V(cpu, x) ELSE V(cpu, y)
               b == IF Fetching[4] = 5 THEN V(cpu, y) ELSE V(cpu, x)
           IN /\ cpu'.registers.v[15] = NoBorrow(a, b)
              /\ cpu'.registers.v[x] = (a - b) % 256 ]_vars

\* C7 as amended: VF is the negation of the borrow for every x and y, and
\* Vx is the difference modulo 256 when x is not F (the flag is written
\* last, over the difference); no other register changes.
C7_SubFlagLast ==
  [][ (DoTick /\ Fetching[1] = 8 /\ Fetching[4] \in {5, 7})
        => LET x == Fetching[2]
               y == Fetching[3]
               a == IF Fetching[4] = 5 THEN V(cpu, x) ELSE V(cpu, y)
               b == IF Fetching[4] = 5 THEN V(cpu, y) ELSE V(cpu, x)
           IN /\ Ok(cpu')
              /\ cpu'.registers.v[15] = NoBorrow(a, b)
              /\ x # 15 => cpu'.registers.v[x] = (a - b) % 256
              /\ \A r \in Reg \ {x, 15} : cpu'.registers.v[r] = V(cpu, r) ]_vars

\* 8017 has run on V0 = F3, V1 = 20: a borrow, V0 = 2D, VF = 0.
C7_Witness ==
  /\ LastStep(<<8, 0, 1, 7>>, "executed")
  /\ cpu.registers.v[0] = 45
  /\ cpu.registers.v[1] = 32
  /\ cpu.registers.v[15] = 0


(* ------------------------------------------------------------------ *)
(* C8                                                                   *)
(* ------------------------------------------------------------------ *)

IsCall(ins) == ins[1] = 2
IsRet(ins) == ins = <<0, 0, 14, 14>>

\* C8: the stack pointer is a ring index. It is in 0..15 before and after
\* every step; a CALL stores pc in the slot sp names and moves sp to
\* (sp + 1) mod 16, so from 15 to 0; a RET moves sp to (sp - 1) mod 16, so
\* from 0 to 15, and resumes at stack[new sp] + 2 without changing the
\* stack. Neither ever faults on the stack: the only panic a CALL step can
\* end in is the overflow of `pc += 2` after a CALL to address 0 or 1 in a
\* build with overflow checks.
C8_StackRing ==
  [][ /\ cpu.registers.sp \in 0..15
      /\ cpu'.registers.sp \in 0..15
      /\ (DoTick /\ IsCall(Fetching)) =>
           /\ cpu'.registers.sp = (cpu.registers.sp + 1) % 16
           /\ cpu'.registers.stack =
                [cpu.registers.stack EXCEPT ![cpu.registers.sp] = cpu.registers.pc]
           /\ Ok(cpu') => cpu'.registers.pc = InsNNN(Fetching)
           /\ ~Ok(cpu') => /\ cpu'.panic = "attempt to add with overflow"
                           /\ overflow_checks
                           /\ InsNNN(Fetching) < 2
      /\ (DoTick /\ IsRet(Fetching)) =>
           /\ Ok(cpu')
           /\ cpu'.registers.sp = (cpu.registers.sp + 15) % 16
           /\ cpu'.registers.stack = cpu.registers.stack
           /\ cpu'.registers.pc =
                cpu.registers.stack[(cpu.registers.sp + 15) % 16] + 2 ]_vars

\* A RET at sp = 0 has just resumed from ring slot 15, which the sixteenth
\* CALL (at sp = 15) had filled.
C8_Witness ==
  /\ LastStep(<<0, 0, 14, 14>>, "executed")
  /\ cpu.registers.sp = 15
  /\ cpu.registers.stack[15] = 572
  /\ cpu.registers.pc = 574
  /\ \A s \in Reg : cpu.registers.stack[s] # 0

(* ------------------------------------------------------------------ *)
(* C9                                                                   *)
(* ------------------------------------------------------------------ *)

\* The highest address the instruction `ins` reads or writes when do_tick
\* runs it on c at time t; -1 when it touches no memory.
LastAccess(c, ins, t) ==
  LET i == c.registers.i
      rows == IF quirks.CLIPPING /\ HEIGHT - (V(c, InsY(ins)) % HEIGHT) < InsN(ins)
              THEN HEIGHT - (V(c, InsY(ins)) % HEIGHT)
              ELSE InsN(ins)
  IN CASE ins[1] = 15 /\ ins[3] = 3 /\ ins[4] = 3 -> i + 2
       [] ins[1] = 15 /\ ins[3] = 5 /\ ins[4] = 5 -> i + InsX(ins)
       [] ins[1] = 15 /\ ins[3] = 6 /\ ins[4] = 5 -> i + InsX(ins)
       [] ins[1] = 13 /\ ~DrawRateLimited(c, t) /\ rows > 0 -> i + rows - 1
       [] OTHER -> 0 - 1

\* C9: an instruction that would touch an address above FFF faults before
\* it has changed any byte of memory or any register.
C9_FaultBeforeAccess ==
  [][ (DoTick /\ LastAccess(cpu, Fetching, now) > 4095)
        => /\ ~Ok(cpu')
           /\ cpu'.memory = cpu.memory
           /\ cpu'.registers = cpu.registers ]_vars

(* ------------------------------------------------------------------ *)
(* C10                                                                  *)
(* ------------------------------------------------------------------ *)

\* C10: the index register always holds a 12-bit address.
C10_IndexIs12Bit == cpu.registers.i <= 4095

(* ------------------------------------------------------------------ *)
(* C11                                                                  *)
(* ------------------------------------------------------------------ *)

\* The glyph table as Memory::new lays it out: 80 bytes from address 0.
GlyphBytes ==
  [a \in 0..(16 * HEX_SPRITES_HEIGHT - 1) |->
     HEX_SPRITES[(a \div HEX_SPRITES_HEIGHT) + 1][(a % HEX_SPRITES_HEIGHT) + 1]]

\* C11: whatever instructions have executed, the 80 bytes of memory from
\* address 000 to 04F still hold the built-in glyph table.
C11_GlyphsNeverChange ==
  \A a \in DOMAIN GlyphBytes : cpu.memory[a] = GlyphBytes[a]

(* ------------------------------------------------------------------ *)
(* C12                                                                  *)
(* ------------------------------------------------------------------ *)

\* fx0a, and the two instructions that ask for a key's state.
IsKeyWait(ins) == ins[1] = 15 /\ ins[3] = 0 /\ ins[4] = 10
IsKeyQuery(ins) ==
  ins[1] = 14 /\ ((ins[3] = 9 /\ ins[4] = 14) \/ (ins[3] = 10 /\ ins[4] = 1))

\* C12: an fx0a executed while the release slot is empty leaves pc and
\* every V register as they were, so that the next step fetches the same
\* fx0a; executed while the slot holds key k it sets Vx to k, advances pc
\* by 2 and empties the slot.
C12_KeyWait ==
  [][ (DoTick /\ IsKeyWait(Fetching)) =>
        /\ Ok(cpu')
        /\ IF cpu.keypad.last_key = None
           THEN /\ cpu'.registers.pc = cpu.registers.pc
                /\ cpu'.registers.v = cpu.registers.v
                /\ Fetching' = Fetching
           ELSE /\ cpu'.registers.pc = cpu.registers.pc + 2
                /\ cpu'.registers.v =
                     [cpu.registers.v EXCEPT
                        ![InsX(Fetching)] = Unwrap(cpu.keypad.last_key)]
                /\ cpu'.keypad.last_key = None ]_vars

\* The F10A of RomSkpWait has just taken the release of key 7 into V1.
C12_Witness ==
  /\ LastStep(<<15, 1, 0, 10>>, "executed")
  /\ Unwrap(last_step).last_key = Some(7)
  /\ cpu.registers.v[1] = 7
  /\ cpu.registers.pc = Unwrap(last_step).pc + 2

(* ------------------------------------------------------------------ *)
(* C13                                                                  *)
(* ------------------------------------------------------------------ *)

\* C13: set_key(idx, state) puts idx in the release slot exactly when the
\* key was down and state is up, and otherwise leaves the slot as it was;
\* the key's state becomes `state` and no other key changes. The slot then
\* changes only by a later release or by an instruction that reads the
\* keypad (fx0a, ex9e, exa1).
C13_SetKeyRecordsRelease ==
  [][ /\ \A idx \in Keys, state \in BOOLEAN :
           KeyEvent(idx, state) =>
             /\ cpu'.keypad.last_key =
                  IF cpu.keypad.key_map[idx] /\ ~state
                  THEN Some(idx)
                  ELSE cpu.keypad.last_key
             /\ cpu'.keypad.key_map =
                  [cpu.keypad.key_map EXCEPT ![idx] = state]
      /\ cpu'.keypad.last_key # cpu.keypad.last_key =>
           \/ \E idx \in Keys :
                /\ cpu.keypad.key_map[idx]
                /\ KeyEvent(idx, FALSE)
                /\ cpu'.keypad.last_key = Some(idx)
           \/ /\ DoTick
              /\ IsKeyWait(Fetching) \/ IsKeyQuery(Fetching)
              /\ cpu'.keypad.last_key = None ]_vars

\* Key 4 was released and is in the slot, and a later press of key 7 has
\* left it there.
C13_Witness ==
  /\ last_call = "set_key"
  /\ cpu.keypad.last_key = Some(4)
  /\ ~cpu.keypad.key_map[4]
  /\ cpu.keypad.key_map[7]

(* ------------------------------------------------------------------ *)
(* C14                                                                  *)
(* ------------------------------------------------------------------ *)

\* C14: get_released_key, which fx0a calls, hands over the key in the
\* release slot and leaves the slot empty, so that the next call finds
\* nothing; called on an empty slot it changes nothing of the keypad, and
\* fx0a then changes nothing of the Cpu. No key's state changes.
C14_ReleaseDeliveredOnce ==
  [][ (DoTick /\ IsKeyWait(Fetching)) =>
        /\ cpu'.keypad.last_key = None
        /\ cpu'.keypad.key_map = cpu.keypad.key_map
        /\ cpu.keypad.last_key = None => cpu' = cpu
        /\ IsSome(cpu.keypad.last_key) =>
             /\ cpu'.registers.v[InsX(Fetching)] = Unwrap(cpu.keypad.last_key)
             /\ IsKeyWait(Fetching') =>
                  do_tick(cpu', now, 0).registers.v = cpu'.registers.v ]_vars

\* The F00A of RomKeyWait has just taken the release of key 4 into V0 and
\* the slot is empty.
C14_Witness ==
  /\ LastStep(<<15, 0, 0, 10>>, "executed")
  /\ Unwrap(last_step).last_key = Some(4)
  /\ cpu.registers.v[0] = 4
  /\ cpu.keypad.last_key = None

(* ------------------------------------------------------------------ *)
(* C15                                                                  *)
(* ------------------------------------------------------------------ *)

\* C15: ex9e and exa1 empty the release slot and change no key's state; an
\* fx0a that comes next takes no key, whatever release came before the
\* query.
C15_QueryClearsRelease ==
  [][ (DoTick /\ IsKeyQuery(Fetching)) =>
        /\ Ok(cpu')
        /\ cpu'.keypad.last_key = None
        /\ cpu'.keypad.key_map = cpu.keypad.key_map
        /\ IsKeyWait(Fetching') =>
             /\ do_tick(cpu', now, 0).registers.v = cpu'.registers.v
             /\ do_tick(cpu', now, 0).registers.pc = cpu'.registers.pc ]_vars

\* The E09E of RomSkpWait has just run with the release of key 7 pending:
\* the slot is empty and the F10A is next.
C15_Witness ==
  /\ LastStep(<<14, 0, 9, 14>>, "executed")
  /\ Unwrap(last_step).last_key = Some(7)
  /\ cpu.keypad.last_key = None
  /\ IsKeyWait(Fetching)

(* ------------------------------------------------------------------ *)
(* C16                                                                  *)
(* ------------------------------------------------------------------ *)

\* The next do_tick call fetches a DRW that the rate limit lets through.
DrawGoesThrough == Fetching[1] = 13 /\ ~DrawRateLimited(cpu, now)

\* Where the DRW being fetched starts, and what it draws.
DrawColumn == cpu.registers.v[InsX(Fetching)] % 64
DrawLine == cpu.registers.v[InsY(Fetching)] % 32
DrawHeight == InsN(Fetching)

\* The bits of a sprite byte that are set, bit 7 counted as 0.
SpriteBits(byte) == {b \in 0..7 : BitAnd(byte, 2 ^ (7 - b)) # 0}

\* Some pixel that was lit in `before` is dark in `after`.
PixelCleared(before, after) ==
  \E r \in 0..31 : \E col \in before[r] : col \notin after[r]

\* C16: a DRW that draws leaves VF = 1 if some pixel that was lit before
\* the draw is dark after it, and VF = 0 otherwise; drawn on rows that were
\* all dark it leaves VF = 0.
C16_CollisionFlag ==
  [][ (DoTick /\ DrawGoesThrough /\ Ok(cpu')) =>
        /\ cpu'.registers.v[15] =
             IF PixelCleared(cpu.screen, cpu'.screen) THEN 1 ELSE 0
        /\ (\A r \in 0..31 : cpu.screen[r] = {}) =>
             cpu'.registers.v[15] = 0 ]_vars

\* A second draw has just gone through, cleared pixels of the first and
\* left others lit: VF is 1.
C16_Witness ==
  /\ LastStep(<<13, 0, 1, 5>>, "executed")
  /\ Unwrap(last_step).pc = 522
  /\ cpu.registers.v[15] = 1
  /\ \E r \in 0..31 : cpu.screen[r] # {}

(* ------------------------------------------------------------------ *)
(* C17                                                                  *)
(* ------------------------------------------------------------------ *)

\* C17: in a clipping build a DRW XORs sprite row k into screen row
\* line + k from column `column` on, for the rows with line + k <= 31, and
\* the bits with column + b <= 63; what falls to the right of column 63 or
\* below row 31 is dropped, and every other row is left as it was.
C17_ClipMode ==
  [][ (DoTick /\ DrawGoesThrough /\ quirks.CLIPPING /\ Ok(cpu')) =>
        \A r \in 0..31 :
          cpu'.screen[r] =
            IF r >= DrawLine /\ r < DrawLine + DrawHeight
            THEN SymDiff(cpu.screen[r],
                         { DrawColumn + b :
                             b \in { k \in SpriteBits(
                                       cpu.memory[cpu.registers.i + r - DrawLine]) :
                                     DrawColumn + k <= 63 } })
            ELSE cpu.screen[r] ]_vars

\* A clipping build has just drawn five rows from (60, 30) on a dark
\* screen: rows 30 and 31 hold the four leftmost bits of sprite rows 0 and
\* 1, and rows 0 to 2 and columns 0 to 3 are dark.
C17_Witness ==
  /\ quirks.CLIPPING
  /\ LastStep(<<13, 0, 1, 5>>, "executed")
  /\ Unwrap(last_step).pc = 518
  /\ cpu.registers.v[0] = 124 /\ cpu.registers.v[1] = 62
  /\ cpu.screen[30] = {60, 61, 62, 63}
  /\ cpu.screen[31] = {60}
  /\ \A r \in 0..29 : cpu.screen[r] = {}

(* ------------------------------------------------------------------ *)
(* C18                                                                  *)
(* ------------------------------------------------------------------ *)

\* C18: in a wrapping build a DRW XORs sprite row k into screen row
\* (line + k) mod 32, bit b at column (column + b) mod 64: what passes
\* column 63 comes back from column 0 of the same row and what passes row
\* 31 comes back from row 0. Every other row is left as it was.
C18_WrapMode ==
  [][ (DoTick /\ DrawGoesThrough /\ ~quirks.CLIPPING /\ Ok(cpu')) =>
        \A r \in 0..31 :
          LET k == (r + 32 - DrawLine) % 32
          IN cpu'.screen[r] =
               IF k < DrawHeight
               THEN SymDiff(cpu.screen[r],
                            { (DrawColumn + b) % 64 :
                                b \in SpriteBits(cpu.memory[cpu.registers.i + k]) })
               ELSE cpu.screen[r] ]_vars

\* A wrapping build has just drawn five rows from (60, 30) on a dark
\* screen: sprite rows 0 and 1 are on screen rows 30 and 31, rows 2 to 4 on
\* screen rows 0 to 2, and the four rightmost bits on columns 0 to 3.
C18_Witness ==
  /\ ~quirks.CLIPPING
  /\ LastStep(<<13, 0, 1, 5>>, "executed")
  /\ Unwrap(last_step).pc = 518
  /\ cpu.registers.v[0] = 124 /\ cpu.registers.v[1] = 62
  /\ cpu.screen[30] = {60, 61, 62, 63, 0, 1, 2, 3}
  /\ cpu.screen[31] = {60, 3}
  /\ cpu.screen[0] = {60, 61, 2, 3}
  /\ cpu.screen[1] = {63, 0}
  /\ cpu.screen[2] = {60, 61, 62, 63, 0, 1, 2, 3}

(* ------------------------------------------------------------------ *)
(* C19                                                                  *)
(* ------------------------------------------------------------------ *)

\* C19: in both builds a DRW starts at column Vx mod 64 of row Vy mod 32:
\* when the sprite's first byte has its bit 7 set, that pixel is the one
\* that flips in the row; every pixel that changes is in one of the 8
\* columns and n rows counted (circularly) from there; and the call indexes
\* no screen row outside 0..31, so it does not panic.
C19_DrawOrigin ==
  [][ (DoTick /\ DrawGoesThrough) =>
        /\ Ok(cpu')
        /\ DOMAIN cpu'.screen = 0..31
        /\ (DrawHeight >= 1 /\ 0 \in SpriteBits(cpu.memory[cpu.registers.i])) =>
             (DrawColumn \in cpu'.screen[DrawLine])
               # (DrawColumn \in cpu.screen[DrawLine])
        /\ \A r \in 0..31 :
             \A col \in SymDiff(cpu.screen[r], cpu'.screen[r]) :
               /\ (r + 32 - DrawLine) % 32 < DrawHeight
               /\ (col + 64 - DrawColumn) % 64 < 8 ]_vars

\* A draw with Vx = 255 and Vy = 255 has just lit the pixel of column 63
\* and row 31.
C19_Witness ==
  /\ LastStep(<<13, 0, 1, 1>>, "executed")
  /\ Unwrap(last_step).pc = 518
  /\ cpu.registers.v[0] = 255 /\ cpu.registers.v[1] = 255
  /\ 63 \in cpu.screen[31]

(* ------------------------------------------------------------------ *)
(* C20                                                                  *)
(* ------------------------------------------------------------------ *)

IsTimerRead(ins) == ins[1] = 15 /\ ins[3] = 0 /\ ins[4] = 7

\* The value last written to the delay timer, and the time since then in
\* half timer periods (a timer period is 1/60 s, a clock unit 1/120 s).
DelayWritten == cpu.registers.timers[DELAY_TIMER].write_data
DelayElapsed == now - cpu.registers.timers[DELAY_TIMER].last_write

\* C20 as stated: read() returns max(0, written - round(60 * elapsed)).
C20_TimerReadRoundsElapsed ==
  [][ (DoTick /\ IsTimerRead(Fetching)) =>
        cpu'.registers.v[InsX(Fetching)] =
          LET decayed == DelayWritten - ((DelayElapsed + 1) \div 2)
          IN IF decayed < 0 THEN 0 ELSE decayed ]_vars

\* C20 as amended: read() returns max(0, round(written - 60 * elapsed)),
\* the difference being rounded, halves away from zero: 0 when the
\* difference is not positive, else written minus the whole timer periods
\* elapsed (a difference of k + 1/2 gives k + 1). Nothing wraps: the value
\* is in 0..written, it is `written` at once after the write and
\* written - 60 one second later when written >= 60.
C20_TimerReadRoundsDifference ==
  [][ (DoTick /\ IsTimerRead(Fetching)) =>
        LET value == cpu'.registers.v[InsX(Fetching)]
        IN /\ value = IF 2 * DelayWritten <= DelayElapsed
                      THEN 0
                      ELSE DelayWritten - (DelayElapsed \div 2)
           /\ value \in 0..DelayWritten
           /\ DelayElapsed = 0 => value = DelayWritten
           /\ (DelayElapsed = ClockHz /\ DelayWritten >= 60) =>
                value = DelayWritten - 60 ]_vars

\* The delay timer was written 10 and read a period and a half (25 ms)
\* later: the difference 8.5 is read as 9.
C20_Witness ==
  /\ LastStep(<<15, 1, 0, 7>>, "executed")
  /\ DelayWritten = 10
  /\ DelayElapsed = 3
  /\ cpu.registers.v[1] = 9

(* ------------------------------------------------------------------ *)
(* C21                                                                  *)
(* ------------------------------------------------------------------ *)

\* C21: load_rom of a program that does not fit between its origin and the
\* end of memory panics: the Cpu is left without a loaded ROM and with its
\* registers as they were, and nothing runs on it afterwards (no step is
\* ever taken from a panicked Cpu, so no instruction executes and no byte
\* of the program is read). A program that fits is in memory afterwards.
C21_LoadOverflowIsFatal ==
  [][ /\ Ok(cpu)
      /\ \A program \in DecodeRoms, program_begin \in LoadOrigins :
           LoadRom(program, program_begin) =>
             IF program_begin + Len(program) > 4096
             THEN /\ ~Ok(cpu')
                  /\ ~cpu'.rom_loaded
                  /\ cpu'.registers = cpu.registers
                  /\ tick_left' = 0
             ELSE /\ Ok(cpu')
                  /\ cpu'.rom_loaded
                  /\ cpu'.registers.pc = program_begin
                  /\ \A k \in 1..Len(program) :
                       cpu'.memory[program_begin + k - 1] = program[k] ]_vars

\* load_rom at FFD has panicked on the fourth byte: three bytes are in the
\* dead Cpu's memory, no ROM is loaded and no instruction has executed.
C21_Witness ==
  /\ ~Ok(cpu)
  /\ last_call = "load_rom"
  /\ ~cpu.rom_loaded
  /\ cpu.memory[4093] = 96 /\ cpu.memory[4094] = 18
  /\ last_step = None
  /\ tick_left = 0

(* ------------------------------------------------------------------ *)
(* C22                                                                  *)
(* ------------------------------------------------------------------ *)

\* The register file, the screen and the keypad as their constructors
\* leave them (the timers and pc apart).
FreshRegisters(c) ==
  /\ \A r \in Reg : c.registers.v[r] = 0
  /\ c.registers.i = 0
  /\ c.registers.sp = 0
  /\ \A slot \in Reg : c.registers.stack[slot] = 0
FreshScreen(c) == \A r \in 0..31 : c.screen[r] = {}
FreshKeypad(c) ==
  /\ \A k \in Reg : ~c.keypad.key_map[k]
  /\ c.keypad.last_key = None

\* C22: when load_rom has returned, V0..VF, I, sp and the stack are zero,
\* the screen is dark, no key is down and no release is pending, and pc is
\* the origin, whatever was executed or pressed before the call.
C22_LoadResetsMachine ==
  (last_call = "load_rom" /\ Ok(cpu)) =>
    /\ FreshRegisters(cpu)
    /\ FreshScreen(cpu)
    /\ FreshKeypad(cpu)
    /\ cpu.registers.pc = PROGRAM_BEGIN

(* ------------------------------------------------------------------ *)
(* C23                                                                  *)
(* ------------------------------------------------------------------ *)

\* C23: clear() leaves V0..VF, I, sp and the stack zero, the screen dark,
\* no key down and no release pending, no draw remembered, the Cpu not
\* halted and no ROM loaded; and as long as no ROM is loaded a call of
\* tick() runs no instruction and changes nothing, a ROM being loaded only
\* by load_rom.
C23_ClearResets ==
  [][ /\ Clear =>
           /\ FreshRegisters(cpu')
           /\ FreshScreen(cpu')
           /\ FreshKeypad(cpu')
           /\ cpu'.last_draw = None
           /\ ~cpu'.halted
           /\ ~cpu'.rom_loaded
      /\ (Tick /\ ~cpu.rom_loaded) => (tick_left' = 0 /\ cpu' = cpu)
      /\ (~cpu.rom_loaded /\ cpu'.rom_loaded) => last_call' = "load_rom" ]_vars

\* clear() has just been called on a Cpu that had drawn (so it had a lit
\* screen, V0 = 1 and a draw remembered): all of it is gone.
C23_Witness ==
  /\ last_call = "clear"
  /\ LastStep(<<13, 0, 0, 1>>, "executed")
  /\ FreshRegisters(cpu)
  /\ FreshScreen(cpu)
  /\ cpu.last_draw = None
  /\ ~cpu.rom_loaded

(* ------------------------------------------------------------------ *)
(* C24                                                                  *)
(* ------------------------------------------------------------------ *)

\* The opcode table of the machine: the words an instruction is defined
\* for, by their nibbles.
IsDefinedOpcode(ins) ==
  LET word == <<ins[1], ins[3], ins[4]>>
  IN \/ ins \in {<<0, 0, 14, 0>>, <<0, 0, 14, 14>>}
     \/ ins[1] \in {1, 2, 3, 4, 6, 7, 10, 11, 12, 13}
     \/ ins[1] \in {5, 9} /\ ins[4] = 0
     \/ ins[1] = 8 /\ ins[4] \in {0, 1, 2, 3, 4, 5, 6, 7, 14}
     \/ word \in {<<14, 9, 14>>, <<14, 10, 1>>}
     \/ word \in {<<15, 0, 7>>, <<15, 0, 10>>, <<15, 1, 5>>, <<15, 1, 8>>,
                  <<15, 1, 14>>, <<15, 2, 9>>, <<15, 3, 3>>, <<15, 5, 5>>,
                  <<15, 6, 5>>}

\* The two panics of the match for a word it has no instruction for.
DecodePanics == {"SYS not implemented.", "Unknown instruction."}

\* C24: a do_tick call that fetches a word of no defined opcode panics, and
\* leaves pc, the registers, the memory and the screen (all of the Cpu but
\* the panic) as they were, the running tick() going no further; a word of
\* a defined opcode raises neither panic.
C24_UndefinedOpcodeIsFatal ==
  [][ (DoTick /\ CanFetch(cpu)) =>
        IF IsDefinedOpcode(Fetching)
        THEN cpu'.panic \notin DecodePanics
        ELSE /\ cpu'.panic \in DecodePanics
             /\ [cpu' EXCEPT !.panic = "none"] = cpu
             /\ tick_left' = tick_left ]_vars

\* 801F, fetched at 202 after 6012 had run, has just panicked: pc is still
\* 202 and V0 still 12.
C24_Witness ==
  /\ LastStep(<<8, 0, 1, 15>>, "panicked")
  /\ cpu.panic = "Unknown instruction."
  /\ cpu.registers.pc = 514
  /\ cpu.registers.v[0] = 18
  /\ tick_left = 9

(* ------------------------------------------------------------------ *)
(* C25                                                                  *)
(* ------------------------------------------------------------------ *)

\* The beep handler's device is open: start() was the last call made on it.
Playing(c) == IsSome(c.beep_handler) /\ Unwrap(c.beep_handler).device

SoundTimerValue(c, t) == TimerRead(c.registers.timers[SOUND_TIMER], t)

\* C25: a call that disables the sound leaves the handler stopped whatever
\* the sound timer reads, and while the sound is disabled no step starts
\* the handler: it stays stopped.
C25_DisabledSoundIsSilent ==
  [][ /\ (DisableBeep \/ (ToggleBeepEnabled /\ cpu.beep_enabled)) =>
           (~cpu'.beep_enabled /\ ~Playing(cpu'))
      /\ ~cpu'.beep_enabled => ~Playing(cpu') ]_vars

\* The sound was disabled while the handler was playing and the sound timer
\* still read 1: the handler is stopped.
C25_Witness ==
  /\ last_call \in {"disable_beep", "toggle_beep_enabled"}
  /\ LastStep(<<1, 2, 0, 4>>, "executed")
  /\ ~cpu.beep_enabled
  /\ SoundTimerValue(cpu, now) = 1
  /\ ~Playing(cpu)

(* ------------------------------------------------------------------ *)
(* C26                                                                  *)
(* ------------------------------------------------------------------ *)

IsSoundWrite(ins) == ins[1] = 15 /\ ins[3] = 1 /\ ins[4] = 8

\* The handler is playing although the sound timer reads 0, and the Cpu
\* is between two calls in a state in which tick() runs nothing. Neither a
\* later tick() nor the passing of time changes such a state (the timer
\* goes on reading 0): only another call of the host's could.
StopNeverComes(c, t, left) ==
  /\ Ok(c)
  /\ left = 0
  /\ TickIterations(c) = 0
  /\ Playing(c)
  /\ SoundTimerValue(c, t) = 0

\* C26: the handler follows the sound timer whatever halt and resume calls
\* are made: a handler that is playing when the sound timer has come to
\* read 0 is eventually stopped by the Cpu's ticking, so the Cpu is never
\* in a state where the stop is due and ticking does nothing; and an fx18
\* that writes a non-zero value while the sound is enabled leaves the
\* handler playing.
C26_BeepFollowsTimerEventually ==
  [][ /\ ~StopNeverComes(cpu', now', tick_left')
      /\ ( /\ DoTick
           /\ IsSoundWrite(Fetching)
           /\ cpu.registers.v[InsX(Fetching)] > 0
           /\ cpu.beep_enabled ) => Playing(cpu') ]_vars

(* ------------------------------------------------------------------ *)
(* C27                                                                  *)
(* ------------------------------------------------------------------ *)

IsStore(ins) == ins[1] = 15 /\ ins[3] = 5 /\ ins[4] = 5
IsLoad(ins) == ins[1] = 15 /\ ins[3] = 6 /\ ins[4] = 5

\* C27: with memory[I..I+x] inside the memory, fx55 stores V0..Vx there
\* and fx65 loads V0..Vx from there; memory outside that range and the
\* registers V(x+1)..VF are unchanged; I ends at I + x + 1 when
\* MEMORY_LOAD_SAVE_INCREMENT_I is set and is unchanged otherwise.
C27_RegisterTransfer ==
  [][ ( /\ DoTick
        /\ IsStore(Fetching) \/ IsLoad(Fetching)
        /\ cpu.registers.i + InsX(Fetching) < MEMORY_SIZE )
        => LET x == InsX(Fetching)
               i == cpu.registers.i
           IN /\ Ok(cpu')
              /\ IsStore(Fetching) =>
                   \A idx \in 0..x : cpu'.memory[i + idx] = V(cpu, idx)
              /\ IsLoad(Fetching) =>
                   \A idx \in 0..x : cpu'.registers.v[idx] = cpu.memory[i + idx]
              /\ \A addr \in (0..(MEMORY_SIZE - 1)) \ (i..(i + x)) :
                   cpu'.memory[addr] = cpu.memory[addr]
              /\ \A r \in (x + 1)..15 : cpu'.registers.v[r] = V(cpu, r)
              /\ cpu'.registers.i = IF quirks.MEMORY_LOAD_SAVE_INCREMENT_I
                                    THEN i + x + 1
                                    ELSE i ]_vars

\* F255 has stored V0 = 11, V1 = 22, V2 = 00 at FF0 in a build that leaves
\* I alone: FF3 is still 0 and VF still 33.
C27_Witness ==
  /\ LastStep(<<15, 2, 5, 5>>, "executed")
  /\ ~quirks.MEMORY_LOAD_SAVE_INCREMENT_I
  /\ cpu.registers.i = 4080
  /\ cpu.memory[4080] = 17
  /\ cpu.memory[4081] = 34
  /\ cpu.memory[4082] = 0
  /\ cpu.memory[4083] = 0
  /\ cpu.registers.v[15] = 51

(* ------------------------------------------------------------------ *)
(* C28                                                                  *)
(* ------------------------------------------------------------------ *)

IsBcd(ins) == ins[1] = 15 /\ ins[3] = 3 /\ ins[4] = 3

\* C28: with memory[I..I+2] inside the memory, fx33 leaves the decimal
\* digits of Vx there: 100 * memory[I] + 10 * memory[I+1] + memory[I+2] is
\* Vx and each of the three cells is in 0..9; I, Vx and every other cell
\* of memory are unchanged.
C28_DecimalDigits ==
  [][ (DoTick /\ IsBcd(Fetching) /\ cpu.registers.i + 2 < MEMORY_SIZE)
        => LET vx == V(cpu, InsX(Fetching))
               i == cpu.registers.i
               hundreds == cpu'.memory[i]
               tens == cpu'.memory[i + 1]
               ones == cpu'.memory[i + 2]
           IN /\ Ok(cpu')
              /\ 100 * hundreds + 10 * tens + ones = vx
              /\ {hundreds, tens, ones} \subseteq 0..9
              /\ cpu'.registers.i = i
              /\ cpu'.registers.v = cpu.registers.v
              /\ \A addr \in (0..(MEMORY_SIZE - 1)) \ (i..(i + 2)) :
                   cpu'.memory[addr] = cpu.memory[addr] ]_vars

\* F033 has run on V0 = C4 (196) with I = 300: 300..302 hold 1, 9, 6.
C28_Witness ==
  /\ LastStep(<<15, 0, 3, 3>>, "executed")
  /\ cpu.registers.v[0] = 196
  /\ cpu.registers.i = 768
  /\ cpu.memory[768] = 1
  /\ cpu.memory[769] = 9
  /\ cpu.memory[770] = 6

(* ------------------------------------------------------------------ *)
(* C29                                                                  *)
(* ------------------------------------------------------------------ *)

IsShr(ins) == ins[1] = 8 /\ ins[4] = 6
IsShl(ins) == ins[1] = 8 /\ ins[4] = 14

\* The register a shift takes its value from, under the build's policy.
ShiftSource(ins) ==
  IF quirks.SHIFTS_AGAINST_VY THEN InsY(ins) ELSE InsX(ins)

\* The value a shift stores and the bit it shifts out.
Shifted(ins, value) ==
  IF IsShr(ins) THEN value \div 2 ELSE (value * 2) % 256

ShiftedOut(ins, value) ==
  IF IsShr(ins) THEN value % 2 ELSE (value \div 128) % 2

\* C29 as stated: 8xy6 and 8xyE take their value from Vy when
\* SHIFTS_AGAINST_VY is set and from Vx otherwise; afterwards Vx holds the
\* shifted value and VF the bit shifted out, for every x and y.
C29_ShiftAllRegisters ==
  [][ (DoTick /\ (IsShr(Fetching) \/ IsShl(Fetching)))
        => LET value == V(cpu, ShiftSource(Fetching))
           IN /\ cpu'.registers.v[InsX(Fetching)] = Shifted(Fetching, value)
              /\ cpu'.registers.v[15] = ShiftedOut(Fetching, value) ]_vars

\* C29 as amended: 8xy6 and 8xyE take their value from Vy when
\* SHIFTS_AGAINST_VY is set and from Vx otherwise; afterwards VF holds the
\* bit shifted out for every x and y, Vx holds the shifted value when x is
\* not F (the flag is written last, over it), and no other register
\* changes.
C29_ShiftFlagLast ==
  [][ (DoTick /\ (IsShr(Fetching) \/ IsShl(Fetching)))
        => LET x == InsX(Fetching)
               value == V(cpu, ShiftSource(Fetching))
           IN /\ Ok(cpu')
              /\ cpu'.registers.v[15] = ShiftedOut(Fetching, value)
              /\ x # 15 => cpu'.registers.v[x] = Shifted(Fetching, value)
              /\ \A r \in Reg \ {x, 15} : cpu'.registers.v[r] = V(cpu, r) ]_vars

\* 8016 has run on V0 = 00, V1 = FF in a build that shifts Vy: V0 = 7F,
\* VF = 1 and V1 is still FF.
C29_Witness ==
  /\ LastStep(<<8, 0, 1, 6>>, "executed")
  /\ quirks.SHIFTS_AGAINST_VY
  /\ cpu.registers.v[0] = 127
  /\ cpu.registers.v[1] = 255
  /\ cpu.registers.v[15] = 1

(* ------------------------------------------------------------------ *)
(* C30                                                                  *)
(* ------------------------------------------------------------------ *)

IsLogic(ins) == ins[1] = 8 /\ ins[4] \in {1, 2, 3}

\* What 8xy1, 8xy2 and 8xy3 compute of two values.
LogicResult(ins, a, b) ==
  CASE ins[4] = 1 -> BitOr(a, b)
    [] ins[4] = 2 -> BitAnd(a, b)
    [] ins[4] = 3 -> BitXor(a, b)

\* C30 as stated: 8xy1, 8xy2 and 8xy3 leave Vx OR Vy, Vx AND Vy and
\* Vx XOR Vy in Vx and leave Vy unchanged, for every x and y; VF is either
\* preserved (one mode) or reset to 0 (the other).
C30_LogicAllRegisters ==
  [][ (DoTick /\ IsLogic(Fetching))
        => LET x == InsX(Fetching)
               y == InsY(Fetching)
           IN /\ cpu'.registers.v[x] = LogicResult(Fetching, V(cpu, x), V(cpu, y))
              /\ cpu'.registers.v[y] = V(cpu, y)
              /\ cpu'.registers.v[15] \in {V(cpu, 15), 0} ]_vars

\* C30 as amended: there is one mode: 8xy1, 8xy2 and 8xy3 always leave 0
\* in VF, written after the result; Vx holds Vx OR Vy, Vx AND Vy or
\* Vx XOR Vy when x is not F, and every register other than Vx and VF,
\* Vy among them, is unchanged.
C30_LogicResetsFlag ==
  [][ (DoTick /\ IsLogic(Fetching))
        => LET x == InsX(Fetching)
               y == InsY(Fetching)
           IN /\ Ok(cpu')
              /\ cpu'.registers.v[15] = 0
              /\ x # 15 =>
                   cpu'.registers.v[x] = LogicResult(Fetching, V(cpu, x), V(cpu, y))
              /\ \A r \in Reg \ {x, 15} : cpu'.registers.v[r] = V(cpu, r) ]_vars

\* 8011 has run on V0 = AA, V1 = 81 after 6F01 had set VF to 1: V0 = AB,
\* V1 is still 81 and VF is 0.
C30_Witness ==
  /\ LastStep(<<8, 0, 1, 1>>, "executed")
  /\ cpu.memory[512] = 111
  /\ cpu.memory[513] = 1
  /\ cpu.registers.v[0] = 171
  /\ cpu.registers.v[1] = 129
  /\ cpu.registers.v[15] = 0

(* ------------------------------------------------------------------ *)
(* C31                                                                  *)
(* ------------------------------------------------------------------ *)

IsJump(ins) == ins[1] = 1

\* C31: for every target nnn, 1nnn leaves pc equal to nnn and changes no
\* register, no stack entry and no cell of memory.
C31_JumpSetsPc ==
  [][ (DoTick /\ IsJump(Fetching))
        => /\ Ok(cpu')
           /\ cpu'.registers.pc = InsNNN(Fetching)
           /\ cpu'.registers = [cpu.registers EXCEPT !.pc = InsNNN(Fetching)]
           /\ cpu'.memory = cpu.memory ]_vars

(* ------------------------------------------------------------------ *)
(* C32                                                                  *)
(* ------------------------------------------------------------------ *)

IsJumpOffset(ins) == ins[1] = 11

\* C32: bnnn leaves pc at nnn + V0 when JP_BEHAVIOUR is 0 and at kk + Vx
\* when it is 1, and the next instruction can be fetched from there.
C32_JumpOffsetIsFetchable ==
  [][ (DoTick /\ IsJumpOffset(Fetching))
        => /\ Ok(cpu')
           /\ cpu'.registers.pc =
                IF quirks.JP_BEHAVIOUR = 0
                THEN InsNNN(Fetching) + V(cpu, 0)
                ELSE InsKK(Fetching) + V(cpu, InsX(Fetching))
           /\ CanFetch(cpu') ]_vars

(* ------------------------------------------------------------------ *)
(* C33                                                                  *)
(* ------------------------------------------------------------------ *)

IsSkip(ins) ==
  \/ ins[1] \in {3, 4}
  \/ ins[1] \in {5, 9} /\ ins[4] = 0
  \/ IsKeyQuery(ins)

\* The condition under which the skip `ins` skips, on the Cpu c.
SkipCondition(c, ins) ==
  CASE ins[1] = 3 -> V(c, InsX(ins)) = InsKK(ins)
    [] ins[1] = 4 -> V(c, InsX(ins)) # InsKK(ins)
    [] ins[1] = 5 -> V(c, InsX(ins)) = V(c, InsY(ins))
    [] ins[1] = 9 -> V(c, InsX(ins)) # V(c, InsY(ins))
    [] ins[1] = 14 /\ ins[3] = 9 -> c.keypad.key_map[V(c, InsX(ins))]
    [] ins[1] = 14 /\ ins[3] = 10 -> ~c.keypad.key_map[V(c, InsX(ins))]

\* C33: a conditional skip (a key query on a key in 0..F) advances pc by 4
\* when its condition holds and by 2 when it does not, and changes no
\* register: 3xkk skips iff Vx = kk, 4xkk iff Vx # kk, 5xy0 iff Vx = Vy,
\* 9xy0 iff Vx # Vy, ex9e iff key Vx is down, exa1 iff key Vx is up.
C33_SkipsAdvanceByFourOrTwo ==
  [][ ( /\ DoTick
        /\ IsSkip(Fetching)
        /\ IsKeyQuery(Fetching) => V(cpu, InsX(Fetching)) \in Reg )
        => /\ Ok(cpu')
           /\ cpu'.registers =
                [cpu.registers EXCEPT
                   !.pc = IF SkipCondition(cpu, Fetching) THEN @ + 4 ELSE @ + 2] ]_vars

\* E0A1 has run on V0 = 07 with key 7 down and has not skipped: pc is 206.
C33_Witness ==
  /\ LastStep(<<14, 0, 10, 1>>, "executed")
  /\ cpu.registers.v[0] = 7
  /\ cpu.keypad.key_map[7]
  /\ cpu.registers.pc = 518

(* ------------------------------------------------------------------ *)
(* C40                                                                  *)
(* ------------------------------------------------------------------ *)

\* C40: ex9e and exa1 look the key up by the whole value of Vx: with Vx
\* above F the step panics without a skip decision, pc and the registers
\* as they were; with Vx in 0..F it never panics.
C40_KeyQueryIndexUnmasked ==
  [][ (DoTick /\ IsKeyQuery(Fetching))
        => IF V(cpu, InsX(Fetching)) > 15
           THEN /\ ~Ok(cpu')
                /\ cpu'.registers = cpu.registers
           ELSE Ok(cpu') ]_vars

\* E09E has panicked on V0 = 10 (16), which names no key, while key 0 = 16
\* mod 16 was never touched: pc is still 204.
C40_Witness ==
  /\ LastStep(<<14, 0, 9, 14>>, "panicked")
  /\ cpu.panic = "called Option::unwrap() on a None value"
  /\ cpu.registers.v[0] = 16
  /\ cpu.registers.pc = 516

(* ------------------------------------------------------------------ *)
(* C34                                                                  *)
(* ------------------------------------------------------------------ *)

\* The word whose high byte is memory[addr] and low byte memory[addr + 1].
BigEndianWord(mem, addr) == mem[addr] * 256 + mem[addr + 1]

\* C34: the instruction a step decodes is a function of the word w read
\* big-endian at pc alone: its four fields are (w >> 12) & F, (w >> 8) & F,
\* (w >> 4) & F and w & F, and x = (w >> 8) & F, y = (w >> 4) & F,
\* n = w & F, kk = w & FF, nnn = w & FFF.
C34_DecodeFields ==
  [][ (DoTick /\ CanFetch(cpu))
        => LET w == BigEndianWord(cpu.memory, cpu.registers.pc)
               ins == Unwrap(last_step').ins
           IN /\ ins = << (w \div 4096) % 16, (w \div 256) % 16,
                          (w \div 16) % 16, w % 16 >>
              /\ ins = Fetching
              /\ InsX(ins) = (w \div 256) % 16
              /\ InsY(ins) = (w \div 16) % 16
              /\ InsN(ins) = w % 16
              /\ InsKK(ins) = w % 256
              /\ InsNNN(ins) = w % 4096 ]_vars

\* The word 1234 at 200 was decoded as (1, 2, 3, 4) and run as a jump to
\* 234.
C34_Witness ==
  /\ LastStep(<<1, 2, 3, 4>>, "executed")
  /\ cpu.memory[512] = 18
  /\ cpu.memory[513] = 52
  /\ cpu.registers.pc = 564

(* ------------------------------------------------------------------ *)
(* C35                                                                  *)
(* ------------------------------------------------------------------ *)

ChainLoaded(c, k, d) ==
  /\ c.rom_loaded
  /\ \A n \in 1..Len(ChainRom(k, d)) :
       c.memory[PROGRAM_BEGIN + n - 1] = ChainRom(k, d)[n]

\* Where c stands in the chain ROM of k and d: in the k calls that bring
\* sp to k; j calls deep in the nest, with sp at k + j; or back from the
\* call made at base + 4j, at that address + 2 with sp at k + j again and
\* the slot still holding the address of that call.
ChainLifo(c, k, d) ==
  LET pc == c.registers.pc
      sp == c.registers.sp
      base == ChainBase(k)
  IN \/ \E i \in 0..k : pc = PROGRAM_BEGIN + 2 * i /\ sp = i
     \/ \E j \in 1..d : pc = base + 4 * j /\ sp = (k + j) % 16
     \/ \E j \in 0..(d - 1) :
          /\ pc = base + 4 * j + 2
          /\ sp = (k + j) % 16
          /\ c.registers.stack[sp] = base + 4 * j

\* C36: d calls (d up to 16) made from a stack pointer k and followed by d
\* returns resume, last call first, at each call's address + 2 with the
\* stack pointer that call was made at, and so end at the first call's
\* address + 2 with sp = k; a RET changes no stack slot.
C36_CallRetLifo ==
  [][ /\ \A k \in ChainStarts, d \in ChainDepths :
           ChainLoaded(cpu', k, d) => Ok(cpu') /\ ChainLifo(cpu', k, d)
      /\ (DoTick /\ IsRet(Fetching)) =>
           cpu'.registers.stack = cpu.registers.stack ]_vars

\* Sixteen calls made from sp = 7 and sixteen returns have run: the last
\* RET has resumed at 210, the first call's address + 2, with sp = 7.
C36_Witness ==
  /\ ChainLoaded(cpu, 7, 16)
  /\ LastStep(<<0, 0, 14, 14>>, "executed")
  /\ cpu.registers.pc = 528
  /\ cpu.registers.sp = 7
  /\ cpu.registers.stack[7] = 526
  /\ tick_left = ChainTicks - (7 + 16 + 16)

(* ------------------------------------------------------------------ *)
(* C37                                                                  *)
(* ------------------------------------------------------------------ *)

\* The step about to run is an fx0a with no release pending.
KeyWaitPending == IsKeyWait(Fetching) /\ ~IsSome(cpu.keypad.last_key)

\* C37: a tick() of a running Cpu with a program loaded has exactly
\* ticks_per_frame steps to run, and every step that does not panic takes
\* one of them; an fx0a with no release pending and a rate-limited draw
\* are such steps: they do not panic and leave one step less, the fx0a
\* with pc where it was.
C37_TickRunsExactlyTicksPerFrame ==
  [][ /\ (Tick /\ ~cpu.halted /\ cpu.rom_loaded) =>
           tick_left' = cpu.ticks_per_frame
      /\ (DoTick /\ Ok(cpu')) => tick_left' = tick_left - 1
      /\ (DoTick /\ KeyWaitPending) =>
           /\ Ok(cpu')
           /\ cpu'.registers.pc = cpu.registers.pc
      /\ (DoTick /\ DrawTurnedAway) => Ok(cpu') ]_vars

\* A tick() has returned after ten steps, each an fx0a at 200 that found
\* no release.
C37_Witness ==
  /\ LastStep(<<15, 0, 0, 10>>, "executed")
  /\ last_call = "tick"
  /\ Ok(cpu)
  /\ tick_left = 0
  /\ cpu.registers.pc = 512
  /\ cpu.keypad.last_key = None

(* ------------------------------------------------------------------ *)
(* C39                                                                  *)
(* ------------------------------------------------------------------ *)

\* C39: only a call of halt, resume, toggle_halt or clear changes
\* `halted`. halt leaves the Cpu halted and resume running, and a second
\* halt or resume would change nothing; toggle_halt changes `halted` alone
\* and a second toggle_halt would give back the Cpu it was called on. No
\* step of tick() changes `halted` or `rom_loaded`.
C39_OnlyHaltCallsChangeHalted ==
  [][ /\ cpu'.halted # cpu.halted =>
           /\ last_call' \in {"halt", "resume", "toggle_halt", "clear"}
           /\ calls' = calls + 1
      /\ Halt => /\ cpu' = [cpu EXCEPT !.halted = TRUE]
                 /\ halt(cpu') = cpu'
      /\ Resume => /\ cpu' = [cpu EXCEPT !.halted = FALSE]
                   /\ resume(cpu') = cpu'
      /\ ToggleHalt => /\ cpu' = [cpu EXCEPT !.halted = ~cpu.halted]
                       /\ toggle_halt(cpu') = cpu
      /\ DoTick => /\ cpu'.halted = cpu.halted
                   /\ cpu'.rom_loaded = cpu.rom_loaded ]_vars

\* With a program loaded, a toggle_halt has brought a halted Cpu back to
\* running.
C39_Witness ==
  /\ last_call = "toggle_halt"
  /\ calls = 3
  /\ cpu.rom_loaded
  /\ ~cpu.halted

(* ------------------------------------------------------------------ *)
(* C38                                                                  *)
(* ------------------------------------------------------------------ *)

\* Some pixel that was off in `before` is on in `after`.
PixelLit(before, after) ==
  \E row \in 0..(HEIGHT - 1) : after[row] \ before[row] # {}

\* C38: a draw is its own inverse. When a dxyn (x and y not F, so that Vx
\* and Vy outlive the flag) has gone through, the same dxyn going through
\* again from the state it left gives back the framebuffer the first one
\* found, and sets VF to 1 exactly when the first one had lit a pixel. So
\* the second draw of a ROM that draws twice at one place on an empty
\* screen leaves the screen empty and VF = 1.
C38_DrawTwiceRestores ==
  [][ ( /\ DoTick
        /\ DrawGoesThrough
        /\ InsX(Fetching) # 15
        /\ InsY(Fetching) # 15
        /\ Ok(cpu') )
        => LET again == DRW_dxyn(cpu', Fetching, now)
           IN /\ Ok(again)
              /\ again.screen = cpu.screen
              /\ again.registers.v[15] =
                   IF PixelLit(cpu.screen, cpu'.screen) THEN 1 ELSE 0
              /\ ( /\ cpu.registers.pc = PROGRAM_BEGIN + 10
                   /\ V(cpu, 0) = cpu.memory[PROGRAM_BEGIN + 1] )
                   => /\ cpu'.screen = NewScreen
                      /\ cpu'.registers.v[15] = 1 ]_vars

\* The second D015 of a ROM has drawn at (124, 30), where the first one
\* had drawn, in a build that wraps: the screen is empty again and VF is 1.
C38_Witness ==
  /\ LastStep(<<13, 0, 1, 5>>, "executed")
  /\ Unwrap(last_step).pc = PROGRAM_BEGIN + 10
  /\ ~quirks.CLIPPING
  /\ cpu.registers.v[0] = 124
  /\ cpu.registers.v[1] = 62
  /\ cpu.memory[PROGRAM_BEGIN + 1] = 124
  /\ cpu.screen = NewScreen
  /\ cpu.registers.v[15] = 1

====
